---- MODULE Spec2Model ----
(***************************************************************************)
(* Order-lifecycle coordination core of the stop-limit ladder bot.         *)
(*                                                                         *)
(* Part A models revision src/amend/A: ParallelOrderManager                *)
(* (parallel_order_manager.py), the strategy loop and the order-event      *)
(* handler of TradingStrategy (trading_strategy.py) and the outcomes of    *)
(* the push channel (ws_orders.py) and of the REST client (gateio_api.py). *)
(*                                                                         *)
(* Part B models the execution handling of revisions src/test01           *)
(* (TradingStrategy.on_order_event) and src/f_test (ParallelOrderManager). *)
(*                                                                         *)
(* Part C models graceful_shutdown of src/f_test and of src/amend/A as an  *)
(* entry point called on the ledger the process holds: its input ledger is *)
(* drawn from the records place_new_orders stores, of either side, with or *)
(* without an executed amount.                                             *)
(*                                                                         *)
(* Part D applies the arithmetic helpers (round_up_to_one_significant, the *)
(* sell sizing of place_new_orders, _calculate_prices, the connection      *)
(* arithmetic of WSManager in src/w_test) to drawn inputs.  Amounts are    *)
(* counted in millionths; where a float product can round below the        *)
(* decimal it stands for, both outcomes are drawn.                         *)
(*                                                                         *)
(* Part E models the single-order manager (OrderManager of src/test01 on   *)
(* the OrderState of src/test) with the strategy loop and the order-event  *)
(* handler of src/test/trading_strategy.py.                                *)
(*                                                                         *)
(* Conventions.  Python None is Nil (0) for identifiers and prices,        *)
(* NoAmount (-1) for last_buy_amount, "none" for an absent order type and  *)
(* NoneKey (-1) when None is used as a key of active_orders.  Prices are   *)
(* counted in ticks.  A dict is a sequence of entries in insertion order,  *)
(* as Python iterates it.                                                  *)
(*                                                                         *)
(* ParallelOrderManager reads state.instance_locks and state.pending_flags;*)
(* the ledger modelled here carries one lock and one flag per index        *)
(* 0..N-1, as those lines use them.                                        *)
(***************************************************************************)
EXTENDS Integers, Sequences, FiniteSets, TLC

\* ------------------------------------------------------------- bounds
NumInstances == 2
MaxPrice == 2
MaxOrders == 1
MaxFill == 1
MaxEvents == 2
MaxThreadEvents == 1
PendingTimeout == 1
BuyTriggerAdjust == 2
BuyLimitAdjust == 1
SellTriggerAdjust == 2
SellLimitAdjust == 1
MaxPushRetries == 1
FixedUsdt == 2
MaxMantissa == 99
MaxShift == 5
MaxFeeRate == 2
MaxRefPrice == 3

\* ---------------------------------------------------------- constants
Nil == 0
NoneKey == -1
NoAmount == -1
One == 1000000
DefaultFeeRate == 1

Instances == 0..(NumInstances - 1)
Prices == 1..MaxPrice
ForeignId == -2
Fills == 0..MaxFill
Sides == {"buy", "sell"}
Statuses == {"open", "filled", "canceled", "other"}
TerminalStatuses == {"closed", "filled", "canceled"}
Callers == {"loop", "aux"}

VARIABLES
    active_orders,   \* state.active_orders: sequence of entries, insertion order
    order_type,      \* state.order_type
    last_buy_amount, \* state.last_buy_amount (Nil = None)
    pending_actions, \* state.pending_actions: set of keys
    pending_flags,   \* state.pending_flags
    instance_locks,  \* state.instance_locks: holder of each lock, or "free"
    current_price,   \* TradingStrategy.current_price
    exch,            \* orders the exchange has accepted, by id: [side, ws]
    th,              \* per calling thread: position and locals
    eventsLeft,      \* order events the exchange may still deliver
    ordersLeft,      \* orders the exchange may still accept
    flagBy,          \* history: the thread whose call set each pending flag ("gone": it returned)
    age,             \* history: polling cycles completed while a flag stayed set
    delivered,       \* history: the execution events handled, in order (Part B)
    requests,        \* history: the cancel and market requests of graceful_shutdown (Part C)
    fixed_usdt,      \* config['trading']['fixed_usdt'] (NoAmount = None)
    calc,            \* the arithmetic helper being evaluated: its inputs and its result
    state,           \* the single-order OrderState: active, last_price, order_id
    max_trades,      \* config['trading'].get('trade_limit') (Nil = None)
    trade_count      \* manage_strategy's trade_count, counted while a limit is configured

vars == <<active_orders, order_type, last_buy_amount, pending_actions,
          pending_flags, instance_locks, current_price, exch, th,
          eventsLeft, ordersLeft, flagBy, age, delivered, requests,
          fixed_usdt, calc, state, max_trades, trade_count>>

\* ------------------------------------------------------ dict operations
DictKeys(d) == [n \in 1..Len(d) |-> d[n].k]

DictHas(d, key) == \E n \in 1..Len(d) : d[n].k = key

DictGet(d, key) == d[CHOOSE n \in 1..Len(d) : d[n].k = key]

DictDel(d, key) == SelectSeq(d, LAMBDA e : e.k # key)

DictPut(d, key, r) ==
    IF DictHas(d, key)
    THEN [n \in 1..Len(d) |-> IF d[n].k = key THEN r ELSE d[n]]
    ELSE Append(d, r)

\* ------------------------------------------------------------ helpers
NoOrder == [ok |-> FALSE, id |-> Nil, cid |-> Nil]

Fresh ==
    [pc |-> "idle", top |-> "none", strat |-> FALSE, inExc |-> FALSE,
     exc |-> FALSE, idx |-> NoneKey, keys |-> <<>>, cur |-> Nil,
     cond |-> FALSE, sent |-> FALSE, np |-> Nil, ot |-> "none", res |-> NoOrder,
     att |-> FALSE, items |-> <<>>, start |-> <<>>, tries |-> 0, amount |-> 0,
     order_id |-> Nil]

\* `self.state.order_type or 'buy'`: the side of the next order placed.
PlacementSide(ot) == IF ot = "none" THEN "buy" ELSE ot

\* TradingStrategy._calculate_prices, in ticks: <<trigger, limit>>.
CalculatePricesFlat(last_price, side, instance_index) ==
    IF side = "buy"
    THEN <<last_price + BuyTriggerAdjust, last_price + BuyLimitAdjust>>
    ELSE <<last_price - SellTriggerAdjust, last_price - SellLimitAdjust>>

CalculatePrices(last_price, side, instance_index) ==
    IF side = "buy"
    THEN <<last_price + (BuyTriggerAdjust + instance_index),
           last_price + (BuyLimitAdjust + instance_index)>>
    ELSE <<last_price - (SellTriggerAdjust + instance_index),
           last_price - (SellLimitAdjust + instance_index)>>

\* ----------------------------------------------------------- amounts
\* Amounts are counted in millionths of the base currency: One is 1.0.
\* last_buy_amount and the fills of an event are counted in whole units.

RECURSIVE Pow10(_)
Pow10(n) == IF n = 0 THEN 1 ELSE 10 * Pow10(n - 1)

\* math.floor(math.log10(x)) of x counted in millionths, offset by the six
\* decimals of One: FloorLog10(One) = 6 stands for the exponent 0.
RECURSIVE FloorLog10(_)
FloorLog10(x) == IF x < 10 THEN 0 ELSE 1 + FloorLog10(x \div 10)

Abs(x) == IF x < 0 THEN -x ELSE x

\* 10 ** exponent is a float: for a negative exponent no double equals the
\* power of ten, so the double first_digit * factor can lie below the
\* double x that is written with the same single digit.  `low` says that it
\* does; it can matter only where the exact values are equal, and a product
\* by 1, 2, 4 or 8 is exact.
Exceeds(x, first_digit, factor, low) ==
    \/ x > first_digit * factor
    \/ /\ x = first_digit * factor
       /\ factor < One
       /\ first_digit \notin {1, 2, 4, 8}
       /\ low

\* round_up_to_one_significant(x).
RoundUpToOneSignificant(x, low) ==
    IF x = 0 THEN 0
    ELSE LET exponent == FloorLog10(Abs(x))
             factor == Pow10(exponent)
             first_digit == Abs(x) \div factor
             bumped == IF Exceeds(Abs(x), first_digit, factor, low)
                       THEN first_digit + 1 ELSE first_digit
         IN  IF bumped = 10 THEN 1 * Pow10(exponent + 1) ELSE bumped * factor

\* Lines 45-48 of place_new_orders: the sell amount from the buy amount,
\* both in millionths; fee_rate is counted in thousandths.
SellAmount(carry, fee_rate, low) ==
    carry - RoundUpToOneSignificant((carry * fee_rate) \div 1000, low)

\* GateIOAPIClient.calculate_order_amount for a buy: every exception is
\* caught and answered with 0.
CalculateOrderAmount(limit_price) ==
    IF fixed_usdt = NoAmount \/ limit_price = 0 THEN 0
    ELSE (fixed_usdt * One) \div limit_price

\* `with lock:` blocks until the lock of the instance is free.
LockFreeUnguarded(i) == TRUE

LockFree(i) == instance_locks[i] = "free"

NextId == Len(exch) + 1

\* A top-level call of thread t has returned: a flag it set and left set is orphaned.
Orphan(fb, pf, t) ==
    [i \in Instances |-> IF pf[i] /\ fb[i] = t THEN "gone" ELSE fb[i]]

\* Where thread t continues after its top-level entry point returned normally.
\* In manage_strategy the try block's call is followed by the cycle's end
\* (lines 152-153); the except clause's recover_state() by the cooldown of
\* line 159 and the next iteration.
AfterReturn(r) ==
    IF r.strat /\ ~r.inExc
    THEN [Fresh EXCEPT !.strat = TRUE, !.pc = "s_sleep"]
    ELSE Fresh

\* Where thread t continues after an exception left its entry point:
\* manage_strategy's except clause runs recover_state(); an exception raised
\* inside that clause leaves manage_strategy; any other caller sees it.
AfterRaise(r) ==
    IF r.strat /\ ~r.inExc
    THEN [Fresh EXCEPT !.strat = TRUE, !.inExc = TRUE,
                       !.top = "recoverAll", !.pc = "ra_start"]
    ELSE IF r.strat
    THEN [Fresh EXCEPT !.strat = TRUE, !.pc = "crashed", !.exc = TRUE]
    ELSE [Fresh EXCEPT !.exc = TRUE]

\* ------------------------------------------------- entry points: calls
\* Any other caller of the public entry points (thread "aux").
CallPlace(t) ==
    /\ t = "aux" /\ th[t].pc = "idle"
    /\ th' = [th EXCEPT ![t] = [Fresh EXCEPT !.pc = "p_loop", !.top = "place", !.idx = 0]]
    /\ UNCHANGED <<state, max_trades, trade_count, fixed_usdt, calc, delivered, requests, active_orders, order_type, last_buy_amount, pending_actions,
                   pending_flags, instance_locks, current_price, exch, flagBy, age, eventsLeft, ordersLeft>>

CallMonitor(t) ==
    /\ t = "aux" /\ th[t].pc = "idle"
    /\ th' = [th EXCEPT ![t] = [Fresh EXCEPT !.pc = "m_start", !.top = "monitor"]]
    /\ UNCHANGED <<state, max_trades, trade_count, fixed_usdt, calc, delivered, requests, active_orders, order_type, last_buy_amount, pending_actions,
                   pending_flags, instance_locks, current_price, exch, flagBy, age, eventsLeft, ordersLeft>>

CallAmend(t, i) ==
    /\ t = "aux" /\ th[t].pc = "idle"
    /\ th' = [th EXCEPT ![t] = [Fresh EXCEPT !.pc = "a_enter", !.top = "amend", !.idx = i]]
    /\ UNCHANGED <<state, max_trades, trade_count, fixed_usdt, calc, delivered, requests, active_orders, order_type, last_buy_amount, pending_actions,
                   pending_flags, instance_locks, current_price, exch, flagBy, age, eventsLeft, ordersLeft>>

CallRecover(t, i) ==
    /\ t = "aux" /\ th[t].pc = "idle"
    /\ th' = [th EXCEPT ![t] = [Fresh EXCEPT !.pc = "r_enter", !.top = "recover", !.idx = i]]
    /\ UNCHANGED <<state, max_trades, trade_count, fixed_usdt, calc, delivered, requests, active_orders, order_type, last_buy_amount, pending_actions,
                   pending_flags, instance_locks, current_price, exch, flagBy, age, eventsLeft, ordersLeft>>

CallRecoverAll(t) ==
    /\ t = "aux" /\ th[t].pc = "idle"
    /\ th' = [th EXCEPT ![t] = [Fresh EXCEPT !.pc = "ra_start", !.top = "recoverAll"]]
    /\ UNCHANGED <<state, max_trades, trade_count, fixed_usdt, calc, delivered, requests, active_orders, order_type, last_buy_amount, pending_actions,
                   pending_flags, instance_locks, current_price, exch, flagBy, age, eventsLeft, ordersLeft>>

\* ------------------------------------------------------ place_new_orders
\* Loop head, `with lock`, and the two skips of lines 31-35.
PlaceCheck(t) ==
    LET r == th[t] IN
    /\ r.pc = "p_loop"
    /\ IF r.idx >= NumInstances
       THEN /\ th' = [th EXCEPT ![t] = AfterReturn(r)]
            /\ flagBy' = Orphan(flagBy, pending_flags, t)
            /\ UNCHANGED instance_locks
       ELSE /\ LockFree(r.idx)
            /\ IF pending_flags[r.idx] \/ DictHas(active_orders, r.idx)
               THEN /\ th' = [th EXCEPT ![t].idx = r.idx + 1]
                    /\ UNCHANGED instance_locks
               ELSE /\ th' = [th EXCEPT ![t].pc = "p_begin"]
                    /\ instance_locks' = [instance_locks EXCEPT ![r.idx] = t]
            /\ UNCHANGED flagBy
    /\ UNCHANGED <<state, max_trades, trade_count, fixed_usdt, calc, delivered, requests, active_orders, order_type, last_buy_amount, pending_actions,
                   pending_flags, current_price, exch, age, eventsLeft, ordersLeft>>

\* Lines 43-44 and 51: a sell cannot be sized without last_buy_amount.
SkipsSellNever(side, amount) == FALSE

SkipsSell(side, amount) == side = "sell" /\ amount = NoAmount

\* Lines 37-56: set the flag, read the price and the side, size a sell.
PlaceBegin(t) ==
    LET r == th[t]
        i == r.idx
        side == IF order_type = "none" THEN "buy" ELSE order_type
    IN
    /\ r.pc = "p_begin"
    /\ IF SkipsSell(side, last_buy_amount)
       THEN \* flag set at line 37 and cleared at line 53, then `continue`
            /\ th' = [th EXCEPT ![t].pc = "p_loop", ![t].idx = i + 1]
            /\ instance_locks' = [instance_locks EXCEPT ![i] = "free"]
            /\ pending_flags' = [pending_flags EXCEPT ![i] = FALSE]
            /\ flagBy' = [flagBy EXCEPT ![i] = "none"]
            /\ age' = [age EXCEPT ![i] = 0]
       ELSE /\ \E low \in BOOLEAN :
                  th' = [th EXCEPT ![t].pc = "p_ws", ![t].np = current_price,
                                   ![t].ot = side,
                                   ![t].amount =
                                       IF side = "sell"
                                       THEN SellAmount(last_buy_amount * One,
                                                       DefaultFeeRate, low)
                                       ELSE CalculateOrderAmount(
                                              CalculatePrices(current_price, side, i)[2])]
            /\ pending_flags' = [pending_flags EXCEPT ![i] = TRUE]
            /\ flagBy' = [flagBy EXCEPT ![i] = t]
            /\ UNCHANGED <<instance_locks, age>>
    /\ UNCHANGED <<state, max_trades, trade_count, fixed_usdt, calc, delivered, requests, active_orders, order_type, last_buy_amount, pending_actions,
                   current_price, exch, eventsLeft, ordersLeft>>

\* Lines 58 and 95/98: the fallback is taken when the push call returned
\* nothing.
NeedsFallbackAlways(order) == TRUE

NeedsFallback(order) == ~order.ok

\* Lines 57-58: place_stop_limit_order_ws sends and returns a fresh
\* client_order_id, or returns None when the send raises.
PlaceWs(t) ==
    LET r == th[t] IN
    /\ r.pc = "p_ws"
    /\ \E order \in {[ok |-> TRUE, id |-> Nil, cid |-> NextId], NoOrder} :
          /\ IF order.ok
             THEN /\ ordersLeft > 0
                  /\ ordersLeft' = ordersLeft - 1
                  /\ exch' = Append(exch, [side |-> r.ot, ws |-> TRUE])
             ELSE UNCHANGED <<exch, ordersLeft>>
          /\ th' = [th EXCEPT ![t].pc = IF NeedsFallback(order) THEN "p_rest"
                                        ELSE "p_store",
                              ![t].res = order,
                              ![t].tries = r.tries + 1]
    /\ UNCHANGED <<state, max_trades, trade_count, fixed_usdt, calc, delivered, requests, active_orders, order_type, last_buy_amount, pending_actions,
                   pending_flags, instance_locks, current_price, flagBy, age, eventsLeft>>

\* gateio_api.py lines 67-69: place_stop_limit_order refuses an amount that
\* is not positive.
RestAccepts(amount) == amount > 0

\* Line 60: the REST fallback returns the exchange's order (an id, no
\* client_order_id key) or None.
PlaceRest(t) ==
    LET r == th[t] IN
    /\ r.pc = "p_rest"
    /\ \/ /\ RestAccepts(r.amount)
          /\ ordersLeft > 0
          /\ ordersLeft' = ordersLeft - 1
          /\ exch' = Append(exch, [side |-> r.ot, ws |-> FALSE])
          /\ th' = [th EXCEPT ![t].pc = "p_store",
                              ![t].res = [ok |-> TRUE, id |-> NextId, cid |-> Nil]]
       \/ /\ th' = [th EXCEPT ![t].pc = "p_store", ![t].res = NoOrder]
          /\ UNCHANGED <<exch, ordersLeft>>
    /\ UNCHANGED <<state, max_trades, trade_count, fixed_usdt, calc, delivered, requests, active_orders, order_type, last_buy_amount, pending_actions,
                   pending_flags, instance_locks, current_price, flagBy, age, eventsLeft>>

\* Line 73: the flag of instance i is cleared whether or not an order was
\* placed.
ClearFlagIfPlaced(pf, i, ok) == [pf EXCEPT ![i] = ~ok]

ClearFlag(pf, i, ok) == [pf EXCEPT ![i] = FALSE]

\* Lines 61-73: store the record, clear the flag, leave the `with`.
PlaceStore(t) ==
    LET r == th[t]
        i == r.idx
    IN
    /\ r.pc = "p_store"
    /\ active_orders' =
          IF r.res.ok
          THEN DictPut(active_orders, i,
                       [k |-> i, order_id |-> r.res.id, client_order_id |-> r.res.cid,
                        last_price |-> r.np,
                        limit_price |-> CalculatePrices(r.np, r.ot, i)[2],
                        order_type |-> r.ot])
          ELSE active_orders
    /\ pending_flags' = ClearFlag(pending_flags, i, r.res.ok)
    /\ flagBy' = [flagBy EXCEPT ![i] = "none"]
    /\ age' = [age EXCEPT ![i] = 0]
    /\ instance_locks' = [instance_locks EXCEPT ![i] = "free"]
    /\ th' = [th EXCEPT ![t].pc = "p_loop", ![t].idx = i + 1, ![t].np = Nil,
                        ![t].ot = "none", ![t].res = NoOrder, ![t].tries = 0,
                        ![t].amount = 0]
    /\ UNCHANGED <<state, max_trades, trade_count, fixed_usdt, calc, delivered, requests, order_type, last_buy_amount, pending_actions, current_price,
                   exch, eventsLeft, ordersLeft>>

\* ----------------------------------------------------------- amend_order
\* Where amend_order returns to: monitor_active_orders' loop, or its caller.
AmendReturn(r) ==
    IF r.top = "monitor"
    THEN [r EXCEPT !.pc = "m_loop", !.np = Nil, !.res = NoOrder, !.att = FALSE,
                   !.tries = 0]
    ELSE AfterReturn(r)

\* Lines 76-84: `with lock`, no record -> return, flag set -> return.
AmendCheck(t) ==
    LET r == th[t]
        i == r.idx
    IN
    /\ r.pc = "a_enter"
    /\ LockFree(i)
    /\ IF ~DictHas(active_orders, i) \/ pending_flags[i]
       THEN /\ th' = [th EXCEPT ![t] = AmendReturn(r)]
            /\ flagBy' = IF r.top = "monitor" THEN flagBy
                         ELSE Orphan(flagBy, pending_flags, t)
            /\ UNCHANGED instance_locks
       ELSE /\ th' = [th EXCEPT ![t].pc = "a_begin", ![t].att = TRUE]
            /\ instance_locks' = [instance_locks EXCEPT ![i] = t]
            /\ UNCHANGED flagBy
    /\ UNCHANGED <<state, max_trades, trade_count, fixed_usdt, calc, delivered, requests, active_orders, order_type, last_buy_amount, pending_actions,
                   pending_flags, current_price, exch, age, eventsLeft, ordersLeft>>

\* Lines 86-94: set the flag, read the current price, send the amendment.
AmendBegin(t) ==
    LET r == th[t]
        i == r.idx
    IN
    /\ r.pc = "a_begin"
    /\ pending_flags' = [pending_flags EXCEPT ![i] = TRUE]
    /\ flagBy' = [flagBy EXCEPT ![i] = t]
    /\ th' = [th EXCEPT ![t].pc = "a_ws", ![t].np = current_price, ![t].sent = TRUE]
    /\ UNCHANGED <<state, max_trades, trade_count, fixed_usdt, calc, delivered, requests, active_orders, order_type, last_buy_amount, pending_actions,
                   instance_locks, current_price, exch, age, eventsLeft, ordersLeft>>

\* Lines 94-98: amend_order_ws returns a dict, or None when the send raises.
AmendWs(t) ==
    LET r == th[t] IN
    /\ r.pc = "a_ws"
    /\ \E order \in {[NoOrder EXCEPT !.ok = TRUE], NoOrder} :
          th' = [th EXCEPT ![t].pc = IF NeedsFallback(order) THEN "a_rest"
                                     ELSE "a_done",
                           ![t].res = order,
                           ![t].tries = r.tries + 1]
    /\ UNCHANGED <<state, max_trades, trade_count, fixed_usdt, calc, delivered, requests, active_orders, order_type, last_buy_amount, pending_actions,
                   pending_flags, instance_locks, current_price, exch, flagBy, age, eventsLeft, ordersLeft>>

\* Lines 100-101: the REST PATCH returns the order, or None.
AmendRest(t) ==
    LET r == th[t] IN
    /\ r.pc = "a_rest"
    /\ \/ th' = [th EXCEPT ![t].pc = "a_done", ![t].res = [NoOrder EXCEPT !.ok = TRUE]]
       \/ th' = [th EXCEPT ![t].pc = "a_done", ![t].res = NoOrder]
    /\ UNCHANGED <<state, max_trades, trade_count, fixed_usdt, calc, delivered, requests, active_orders, order_type, last_buy_amount, pending_actions,
                   pending_flags, instance_locks, current_price, exch, flagBy, age, eventsLeft, ordersLeft>>

\* Lines 97/104 and 108: order_state['last_price'] = new_price on success
\* (a write to the dict read at line 78, which is the ledger's record only
\* while the handler has not replaced or removed it), then clear the flag.
AmendEnd(t) ==
    LET r == th[t]
        i == r.idx
        pf == [pending_flags EXCEPT ![i] = FALSE]
        fb == [flagBy EXCEPT ![i] = "none"]
    IN
    /\ r.pc = "a_done"
    /\ active_orders' =
          IF r.res.ok /\ r.att
          THEN DictPut(active_orders, i,
                       [DictGet(active_orders, i) EXCEPT !.last_price = r.np])
          ELSE active_orders
    /\ pending_flags' = pf
    /\ age' = [age EXCEPT ![i] = 0]
    /\ instance_locks' = [instance_locks EXCEPT ![i] = "free"]
    /\ flagBy' = IF r.top = "monitor" THEN fb ELSE Orphan(fb, pf, t)
    /\ th' = [th EXCEPT ![t] = AmendReturn(r)]
    /\ UNCHANGED <<state, max_trades, trade_count, fixed_usdt, calc, delivered, requests, order_type, last_buy_amount, pending_actions, current_price, exch, eventsLeft, ordersLeft>>

\* -------------------------------------------------- monitor_active_orders
\* Lines 111-112: read the price once, snapshot the keys.
MonitorStart(t) ==
    LET r == th[t] IN
    /\ r.pc = "m_start"
    /\ th' = [th EXCEPT ![t].pc = "m_loop", ![t].cur = current_price,
                        ![t].keys = DictKeys(active_orders)]
    /\ UNCHANGED <<state, max_trades, trade_count, fixed_usdt, calc, delivered, requests, active_orders, order_type, last_buy_amount, pending_actions,
                   pending_flags, instance_locks, current_price, exch, flagBy, age, eventsLeft, ordersLeft>>

\* The comparison of lines 124-128.
PriceCondition(os, current) ==
    \/ os.order_type = "buy" /\ current < os.last_price
    \/ os.order_type = "sell" /\ current > os.last_price

\* Lines 112-133 for one key: the lock lookup (which raises for a key that
\* is no instance), the block under the lock, and the call of amend_order
\* that follows the `with` block.
MonitorCheck(t) ==
    LET r == th[t]
        key == Head(r.keys)
    IN
    /\ r.pc = "m_loop"
    /\ IF r.keys = <<>>
       THEN /\ th' = [th EXCEPT ![t] = AfterReturn(r)]
            /\ flagBy' = Orphan(flagBy, pending_flags, t)
            /\ UNCHANGED pending_flags
       ELSE IF key \notin Instances
       THEN /\ th' = [th EXCEPT ![t] = AfterRaise(r)]
            /\ UNCHANGED <<pending_flags, flagBy>>
       ELSE /\ LockFree(key)
            /\ IF pending_flags[key] \/ ~DictHas(active_orders, key)
               THEN /\ th' = [th EXCEPT ![t].keys = Tail(r.keys), ![t].idx = NoneKey,
                                        ![t].cond = FALSE, ![t].sent = FALSE]
                    /\ UNCHANGED <<pending_flags, flagBy>>
               ELSE LET condition == PriceCondition(DictGet(active_orders, key), r.cur) IN
                    /\ th' = [th EXCEPT ![t].pc = "a_enter", ![t].idx = key,
                                        ![t].keys = Tail(r.keys), ![t].cond = condition,
                                        ![t].sent = FALSE]
                    /\ pending_flags' = [pending_flags EXCEPT ![key] = condition]
                    /\ flagBy' = IF condition THEN [flagBy EXCEPT ![key] = t] ELSE flagBy
    /\ UNCHANGED <<state, max_trades, trade_count, fixed_usdt, calc, delivered, requests, active_orders, order_type, last_buy_amount, pending_actions,
                   instance_locks, current_price, exch, age, eventsLeft, ordersLeft>>

\* --------------------------------------------------------- recover_state
\* A thread inside amend_order holds the dict it read at line 78; once the
\* ledger's entry for that key is deleted or replaced, its write at line
\* 97/104 no longer reaches the ledger.
Detach(threads, key) ==
    [u \in Callers |->
        IF threads[u].att /\ threads[u].idx = key
        THEN [threads[u] EXCEPT !.att = FALSE]
        ELSE threads[u]]

\* Where recover_state(index) returns to: the sweep's loop, or its caller.
RecoverReturn(r) ==
    IF r.top = "recoverAll"
    THEN [r EXCEPT !.pc = "ra_loop", !.idx = NoneKey]
    ELSE AfterReturn(r)

\* Lines 141-149: `with lock`, read the record, send the cancel.
RecoverCheck(t) ==
    LET r == th[t]
        i == r.idx
    IN
    /\ r.pc = "r_enter"
    /\ LockFree(i)
    /\ IF ~DictHas(active_orders, i)
       THEN /\ th' = [th EXCEPT ![t] = RecoverReturn(r)]
            /\ flagBy' = IF r.top = "recoverAll" THEN flagBy
                         ELSE Orphan(flagBy, pending_flags, t)
            /\ UNCHANGED instance_locks
       ELSE /\ th' = [th EXCEPT ![t].pc = "r_cancel"]
            /\ instance_locks' = [instance_locks EXCEPT ![i] = t]
            /\ UNCHANGED flagBy
    /\ UNCHANGED <<state, max_trades, trade_count, fixed_usdt, calc, delivered, requests, active_orders, order_type, last_buy_amount, pending_actions,
                   pending_flags, current_price, exch, age, eventsLeft, ordersLeft>>

\* Lines 149-155: cancel_order_ws returned True or False (it catches every
\* exception itself); `del` raises KeyError when the record is gone.
RecoverFinish(t) ==
    LET r == th[t]
        i == r.idx
    IN
    /\ r.pc = "r_cancel"
    /\ \E cancelled \in BOOLEAN :
          IF DictHas(active_orders, i)
          THEN /\ active_orders' = DictDel(active_orders, i)
               /\ th' = [Detach(th, i) EXCEPT ![t] = RecoverReturn(r)]
               /\ flagBy' = IF r.top = "recoverAll" THEN flagBy
                            ELSE Orphan(flagBy, pending_flags, t)
          ELSE /\ th' = [th EXCEPT ![t] = AfterRaise(r)]
               /\ UNCHANGED <<active_orders, flagBy>>
    /\ instance_locks' = [instance_locks EXCEPT ![i] = "free"]
    /\ UNCHANGED <<state, max_trades, trade_count, fixed_usdt, calc, delivered, requests, order_type, last_buy_amount, pending_actions, pending_flags,
                   current_price, exch, age, eventsLeft, ordersLeft>>

\* Line 157: snapshot the keys for the sweep.
RecoverAllStart(t) ==
    LET r == th[t] IN
    /\ r.pc = "ra_start"
    /\ th' = [th EXCEPT ![t].pc = "ra_loop", ![t].keys = DictKeys(active_orders)]
    /\ UNCHANGED <<state, max_trades, trade_count, fixed_usdt, calc, delivered, requests, active_orders, order_type, last_buy_amount, pending_actions,
                   pending_flags, instance_locks, current_price, exch, flagBy, age, eventsLeft, ordersLeft>>

\* Lines 157-159: recover_state(idx) for the next key.  For the key None the
\* call takes the sweep branch again, whose snapshot starts with that same
\* key: the recursion ends in RecursionError.
RecoverAllNext(t) ==
    LET r == th[t] IN
    /\ r.pc = "ra_loop"
    /\ IF r.keys = <<>>
       THEN /\ th' = [th EXCEPT ![t] = AfterReturn(r)]
            /\ flagBy' = Orphan(flagBy, pending_flags, t)
       ELSE IF Head(r.keys) = NoneKey
       THEN /\ th' = [th EXCEPT ![t] = AfterRaise(r)]
            /\ UNCHANGED flagBy
       ELSE /\ th' = [th EXCEPT ![t].pc = "r_enter", ![t].idx = Head(r.keys),
                                ![t].keys = Tail(r.keys)]
            /\ UNCHANGED flagBy
    /\ UNCHANGED <<state, max_trades, trade_count, fixed_usdt, calc, delivered, requests, active_orders, order_type, last_buy_amount, pending_actions,
                   pending_flags, instance_locks, current_price, exch, age, eventsLeft, ordersLeft>>

\* ------------------------------------------------------- manage_strategy
\* Line 138: `if max_trades and trade_count >= max_trades`.
LimitReached(limit, count) == limit # Nil /\ count >= limit

\* Lines 138 and 141-151: unless the trade limit is reached, place when the
\* ledger is empty, else monitor.
StrategyCycle(t) ==
    /\ t = "loop" /\ th[t].pc = "idle"
    /\ ~LimitReached(max_trades, trade_count)
    /\ th' = [th EXCEPT ![t] =
                 IF Len(active_orders) = 0
                 THEN [Fresh EXCEPT !.strat = TRUE, !.pc = "p_loop", !.top = "place", !.idx = 0]
                 ELSE [Fresh EXCEPT !.strat = TRUE, !.pc = "m_start", !.top = "monitor"]]
    /\ UNCHANGED <<state, max_trades, trade_count, fixed_usdt, calc, delivered, requests, active_orders, order_type, last_buy_amount, pending_actions,
                   pending_flags, instance_locks, current_price, exch, flagBy, age, eventsLeft, ordersLeft>>

\* Lines 152-153: the cycle ends (sleep, trade_count += 1).  No sweep of
\* pending flags or pending_actions is run anywhere in the loop.  The count
\* is only ever compared with the limit, and is kept only when one is set.
StrategySleep(t) ==
    /\ th[t].pc = "s_sleep"
    /\ th' = [th EXCEPT ![t] = Fresh]
    /\ age' = [i \in Instances |->
                 IF pending_flags[i]
                 THEN (IF age[i] > PendingTimeout THEN age[i] ELSE age[i] + 1)
                 ELSE 0]
    /\ trade_count' = IF max_trades # Nil THEN trade_count + 1 ELSE trade_count
    /\ UNCHANGED <<state, max_trades, fixed_usdt, calc, delivered, requests, active_orders, order_type, last_buy_amount, pending_actions,
                   pending_flags, instance_locks, current_price, exch, flagBy, eventsLeft, ordersLeft>>

\* ------------------------------------------------- push-channel callbacks
\* The order events the exchange can deliver: for an order it accepted
\* (identified as the placement identified it) and for orders of the same
\* account the bot did not place.
Events ==
    {[id |-> o, cid |-> IF exch[o].ws THEN o ELSE Nil, side |-> exch[o].side,
      status |-> s, filled |-> f] : o \in 1..Len(exch), s \in Statuses, f \in Fills}
    \cup
    {[id |-> ForeignId, cid |-> c, side |-> sd, status |-> s, filled |-> f] :
        c \in {Nil, ForeignId}, sd \in Sides, s \in Statuses, f \in Fills}

\* Lines 69-73: the first key, in dict order, whose record carries the
\* event's client_order_id; None when there is none.
Lookup(d, cid) ==
    IF \E n \in 1..Len(d) : d[n].client_order_id = cid
    THEN d[CHOOSE n \in 1..Len(d) :
              /\ d[n].client_order_id = cid
              /\ \A m \in 1..(n - 1) : d[m].client_order_id # cid].k
    ELSE NoneKey

\* TradingStrategy.on_order_event, lines 62-100.
OnOrderEvent(e) ==
    LET instance_index == Lookup(active_orders, e.cid)
        matched == instance_index # NoneKey /\ DictHas(active_orders, instance_index)
    IN
    /\ eventsLeft > 0
    /\ eventsLeft' = eventsLeft - 1
    /\ pending_actions' = IF instance_index # NoneKey
                          THEN pending_actions \ {instance_index}
                          ELSE pending_actions
    /\ IF e.side = "sell" /\ e.filled > 0
       THEN IF matched
            THEN /\ active_orders' = DictDel(active_orders, instance_index)
                 /\ order_type' = "buy"
                 /\ th' = Detach(th, instance_index)
            ELSE UNCHANGED <<active_orders, order_type, th>>
       ELSE IF e.status \in TerminalStatuses
       THEN IF matched
            THEN /\ active_orders' = DictDel(active_orders, instance_index)
                 /\ th' = Detach(th, instance_index)
                 /\ UNCHANGED order_type
            ELSE UNCHANGED <<active_orders, order_type, th>>
       ELSE IF e.status = "open"
       THEN /\ active_orders' =
                 DictPut(active_orders, instance_index,
                         [k |-> instance_index, order_id |-> e.id,
                          client_order_id |-> e.cid, last_price |-> Nil,
                          limit_price |-> Nil, order_type |-> "none"])
            /\ th' = Detach(th, instance_index)
            /\ UNCHANGED order_type
       ELSE UNCHANGED <<active_orders, order_type, th>>
    /\ UNCHANGED <<state, max_trades, trade_count, fixed_usdt, calc, delivered, requests, last_buy_amount, pending_flags, instance_locks, current_price,
                   exch, flagBy, age, ordersLeft>>

\* TradingStrategy.update_price, lines 59-60.
UpdatePrice(price) ==
    /\ price # current_price
    /\ current_price' = price
    /\ UNCHANGED <<state, max_trades, trade_count, fixed_usdt, calc, delivered, requests, active_orders, order_type, last_buy_amount, pending_actions,
                   pending_flags, instance_locks, exch, th, flagBy, age, eventsLeft, ordersLeft>>

\* ---------------------------------------------------------- specification
\* The locks and flags ParallelOrderManager reads from the ledger: every
\* instance starts Empty, not pending, its lock free.
InitCoordination ==
    /\ pending_flags = [i \in Instances |-> FALSE]
    /\ instance_locks = [i \in Instances |-> "free"]

\* OrderState.__init__ of the single-order revision: no order.
NoState == [active |-> FALSE, last_price |-> Nil, order_id |-> Nil]

\* No arithmetic helper is being evaluated.
NoCalc ==
    [fn |-> "none", done |-> FALSE, x |-> 0, low |-> FALSE, fee_rate |-> 0,
     last_price |-> 0, side |-> "none", max_instances_per_ws |-> 0,
     out |-> <<>>]

\* OrderState.__init__ and TradingStrategy.__init__: an empty ledger, side
\* buy, no buy amount, the initial price fetched.
InitLedger ==
    /\ active_orders = <<>>
    /\ order_type = "buy"
    /\ last_buy_amount = NoAmount
    /\ pending_actions = {}
    /\ InitCoordination
    /\ current_price \in Prices
    /\ exch = <<>>
    /\ th = [t \in Callers |-> Fresh]
    /\ flagBy = [i \in Instances |-> "none"]
    /\ age = [i \in Instances |-> 0]
    /\ delivered = <<>>
    /\ requests = <<>>
    /\ calc = NoCalc
    /\ state = NoState
    /\ trade_count = 0

\* The configuration names a fixed notional for buys and no trade limit.
InitState == InitLedger /\ fixed_usdt = FixedUsdt /\ max_trades = Nil

Init == InitState /\ eventsLeft = MaxEvents /\ ordersLeft = MaxOrders

InitThreads == InitState /\ eventsLeft = MaxThreadEvents /\ ordersLeft = MaxOrders

\* One step of a thread inside the coordinator or the strategy loop.
Step(t) ==
    \/ PlaceCheck(t) \/ PlaceBegin(t) \/ PlaceWs(t) \/ PlaceRest(t) \/ PlaceStore(t)
    \/ AmendCheck(t) \/ AmendBegin(t) \/ AmendWs(t) \/ AmendRest(t) \/ AmendEnd(t)
    \/ MonitorStart(t) \/ MonitorCheck(t)
    \/ RecoverCheck(t) \/ RecoverFinish(t) \/ RecoverAllStart(t) \/ RecoverAllNext(t)
    \/ StrategyCycle(t) \/ StrategySleep(t)

\* The push channel's thread.
Callback ==
    \/ \E e \in Events : OnOrderEvent(e)
    \/ \E price \in Prices : UpdatePrice(price)

\* The program as wired: manage_strategy in thread "loop", callbacks.
Next ==
    \/ \E t \in Callers : Step(t)
    \/ Callback

Spec == Init /\ [][Next]_vars

\* The program with trade_limit configured.  Lines 138-139: the loop is
\* left when the limit is reached.
TradeLimit == 2

StrategyExit(t) ==
    /\ t = "loop" /\ th[t].pc = "idle"
    /\ LimitReached(max_trades, trade_count)
    /\ th' = [th EXCEPT ![t] = [Fresh EXCEPT !.pc = "exited"]]
    /\ UNCHANGED <<state, max_trades, trade_count, fixed_usdt, calc, delivered,
                   requests, active_orders, order_type, last_buy_amount,
                   pending_actions, pending_flags, instance_locks,
                   current_price, exch, flagBy, age, eventsLeft, ordersLeft>>

InitLimit ==
    /\ InitLedger
    /\ fixed_usdt = FixedUsdt
    /\ max_trades = TradeLimit
    /\ eventsLeft = MaxEvents
    /\ ordersLeft = MaxOrders

NextLimit ==
    \/ Next
    \/ StrategyExit("loop")

SpecLimit == InitLimit /\ [][NextLimit]_vars

\* The program with the ledger's side set to sell, with and without a buy
\* amount on record, when the strategy loop starts.
InitSell ==
    /\ active_orders = <<>>
    /\ order_type = "sell"
    /\ last_buy_amount \in {NoAmount, MaxFill}
    /\ pending_actions = {}
    /\ InitCoordination
    /\ current_price \in Prices
    /\ exch = <<>>
    /\ th = [t \in Callers |-> Fresh]
    /\ flagBy = [i \in Instances |-> "none"]
    /\ age = [i \in Instances |-> 0]
    /\ delivered = <<>>
    /\ requests = <<>>
    /\ fixed_usdt = FixedUsdt
    /\ calc = NoCalc
    /\ state = NoState
    /\ trade_count = 0
    /\ max_trades = Nil
    /\ eventsLeft = MaxEvents
    /\ ordersLeft = MaxOrders

SpecSell == InitSell /\ [][Next]_vars

\* The program started from a configuration with or without the entry
\* trading.buy.fixed_usdt.
InitAmount ==
    /\ InitLedger
    /\ fixed_usdt \in {NoAmount, FixedUsdt}
    /\ max_trades = Nil
    /\ eventsLeft = MaxEvents
    /\ ordersLeft = MaxOrders

SpecAmount == InitAmount /\ [][Next]_vars

\* The same with a second thread calling the public entry points.
AuxCall(t) ==
    \/ CallPlace(t) \/ CallMonitor(t) \/ CallRecoverAll(t)
    \/ \E i \in Instances : CallAmend(t, i) \/ CallRecover(t, i)

NextThreads ==
    \/ \E t \in Callers : AuxCall(t) \/ Step(t)
    \/ Callback

SpecThreads == InitThreads /\ [][NextThreads]_vars

\* ======================================================================
\* Part B: revisions src/test01 (TradingStrategy) and src/f_test
\* (ParallelOrderManager).  No locks, no flags; orders are placed over REST
\* and identified by the exchange's order id.
MaxExecOrders == 2
MaxExecEvents == 2

\* Variables Part B does not use.
ExecFrame ==
    UNCHANGED <<state, max_trades, trade_count, fixed_usdt, calc, pending_actions, pending_flags, instance_locks, eventsLeft,
                flagBy, age, requests>>

\* The record place_new_orders and cancel_and_replace store.
ExecRecord(i, oid, price, side) ==
    [k |-> i, order_id |-> oid, client_order_id |-> Nil, last_price |-> price,
     limit_price |-> CalculatePrices(price, side, i)[2], order_type |-> side]

\* manage_strategy (test01): place when the ledger is empty, else monitor.
ExecStrategyCycle(t) ==
    /\ t = "loop" /\ th[t].pc = "idle"
    /\ th' = [th EXCEPT ![t] =
                 IF Len(active_orders) = 0
                 THEN [Fresh EXCEPT !.pc = "xp_loop", !.top = "place", !.idx = 0]
                 ELSE [Fresh EXCEPT !.pc = "xm_start", !.top = "monitor"]]
    /\ UNCHANGED <<active_orders, order_type, last_buy_amount, current_price,
                   exch, ordersLeft, delivered>>
    /\ ExecFrame

\* place_new_orders (f_test), lines 26-42: skip an instance that has a
\* record, size a sell, call the REST client (which returns the order or
\* None).
ExecPlaceSend(t) ==
    LET r == th[t]
        i == r.idx
        side == IF order_type = "none" THEN "buy" ELSE order_type
    IN
    /\ r.pc = "xp_loop"
    /\ IF i >= NumInstances
       THEN /\ th' = [th EXCEPT ![t] = Fresh]
            /\ UNCHANGED <<exch, ordersLeft>>
       ELSE IF DictHas(active_orders, i) \/ (side = "sell" /\ last_buy_amount = NoAmount)
       THEN /\ th' = [th EXCEPT ![t].idx = i + 1]
            /\ UNCHANGED <<exch, ordersLeft>>
       ELSE \/ /\ ordersLeft > 0
               /\ ordersLeft' = ordersLeft - 1
               /\ exch' = Append(exch, [side |-> side, ws |-> FALSE])
               /\ th' = [th EXCEPT ![t].pc = "xp_store", ![t].np = current_price,
                                   ![t].ot = side,
                                   ![t].res = [ok |-> TRUE, id |-> NextId, cid |-> Nil]]
            \/ /\ th' = [th EXCEPT ![t].idx = i + 1]
               /\ UNCHANGED <<exch, ordersLeft>>
    /\ UNCHANGED <<active_orders, order_type, last_buy_amount, current_price, delivered>>
    /\ ExecFrame

\* place_new_orders (f_test), lines 43-52: store the record.
ExecPlaceStore(t) ==
    LET r == th[t] IN
    /\ r.pc = "xp_store"
    /\ active_orders' = DictPut(active_orders, r.idx,
                                ExecRecord(r.idx, r.res.id, r.np, r.ot))
    /\ th' = [th EXCEPT ![t].pc = "xp_loop", ![t].idx = r.idx + 1, ![t].np = Nil,
                        ![t].ot = "none", ![t].res = NoOrder]
    /\ UNCHANGED <<order_type, last_buy_amount, current_price, exch, ordersLeft,
                   delivered>>
    /\ ExecFrame

\* monitor_active_orders (f_test), lines 60-61: read the price, snapshot the
\* items.
ExecMonitorStart(t) ==
    /\ th[t].pc = "xm_start"
    /\ th' = [th EXCEPT ![t].pc = "xm_loop", ![t].cur = current_price,
                        ![t].items = active_orders]
    /\ UNCHANGED <<active_orders, order_type, last_buy_amount, current_price,
                   exch, ordersLeft, delivered>>
    /\ ExecFrame

\* The comparison of monitor_active_orders (f_test), lines 65-68.
ExecCondition(os, current) ==
    \/ os.order_type = "buy" /\ current < os.last_price
    \/ os.order_type = "sell" /\ current > os.last_price

\* monitor_active_orders (f_test), lines 61-72, and the head of
\* cancel_and_replace, lines 78-84.
ExecMonitorNext(t) ==
    LET r == th[t]
        os == Head(r.items)
    IN
    /\ r.pc = "xm_loop"
    /\ IF r.items = <<>>
       THEN th' = [th EXCEPT ![t] = Fresh]
       ELSE IF ExecCondition(os, r.cur) /\ DictHas(active_orders, os.k)
       THEN th' = [th EXCEPT ![t].pc = "xc_cancel", ![t].idx = os.k,
                             ![t].items = Tail(r.items),
                             ![t].ot = DictGet(active_orders, os.k).order_type,
                             ![t].order_id = DictGet(active_orders, os.k).order_id]
       ELSE th' = [th EXCEPT ![t].items = Tail(r.items)]
    /\ UNCHANGED <<active_orders, order_type, last_buy_amount, current_price,
                   exch, ordersLeft, delivered>>
    /\ ExecFrame

\* cancel_and_replace (f_test), lines 85-96: the cancel (True or False), the
\* new price, the sizing of a sell.
ExecCancel(t) ==
    LET r == th[t] IN
    /\ r.pc = "xc_cancel"
    /\ \E cancelled \in BOOLEAN :
          IF cancelled /\ ~(r.ot = "sell" /\ last_buy_amount = NoAmount)
          THEN th' = [th EXCEPT ![t].pc = "xc_place", ![t].np = current_price]
          ELSE th' = [th EXCEPT ![t].pc = "xm_loop", ![t].idx = NoneKey,
                                ![t].ot = "none", ![t].order_id = Nil]
    /\ UNCHANGED <<active_orders, order_type, last_buy_amount, current_price,
                   exch, ordersLeft, delivered>>
    /\ ExecFrame

\* cancel_and_replace (f_test), line 97: the replacement order.
ExecReplaceSend(t) ==
    LET r == th[t] IN
    /\ r.pc = "xc_place"
    /\ \/ /\ ordersLeft > 0
          /\ ordersLeft' = ordersLeft - 1
          /\ exch' = Append(exch, [side |-> r.ot, ws |-> FALSE])
          /\ th' = [th EXCEPT ![t].pc = "xc_store",
                              ![t].res = [ok |-> TRUE, id |-> NextId, cid |-> Nil]]
       \/ /\ th' = [th EXCEPT ![t].pc = "xm_loop", ![t].idx = NoneKey,
                              ![t].ot = "none", ![t].np = Nil,
                              ![t].order_id = Nil]
          /\ UNCHANGED <<exch, ordersLeft>>
    /\ UNCHANGED <<active_orders, order_type, last_buy_amount, current_price, delivered>>
    /\ ExecFrame

\* cancel_and_replace (f_test), lines 98-107: store the replacement.
ExecReplaceStore(t) ==
    LET r == th[t] IN
    /\ r.pc = "xc_store"
    /\ active_orders' = DictPut(active_orders, r.idx,
                                ExecRecord(r.idx, r.res.id, r.np, r.ot))
    /\ th' = [th EXCEPT ![t].pc = "xm_loop", ![t].idx = NoneKey, ![t].np = Nil,
                        ![t].ot = "none", ![t].res = NoOrder,
                        ![t].order_id = Nil]
    /\ UNCHANGED <<order_type, last_buy_amount, current_price, exch, ordersLeft,
                   delivered>>
    /\ ExecFrame

\* The execution events gateio_websocket forwards (status closed or filled):
\* for an order the exchange accepted, or for an order of the same account
\* that the bot did not place.
ExecEvents ==
    {[order_id |-> o, filled |-> f] :
        o \in (1..Len(exch)) \cup {ForeignId}, f \in Fills}

\* on_order_event (test01), lines 75-76: the first record, in dict order,
\* whose order_id is the event's.
ExecLookupAny(d, order_id) ==
    IF Len(d) > 0 THEN d[1].k ELSE NoneKey

ExecLookup(d, order_id) ==
    IF \E n \in 1..Len(d) : d[n].order_id = order_id
    THEN d[CHOOSE n \in 1..Len(d) :
              /\ d[n].order_id = order_id
              /\ \A m \in 1..(n - 1) : d[m].order_id # order_id].k
    ELSE NoneKey

HandleOrderExecutionFlipsRecord(d, amount, instance_index, e) ==
    IF ~DictHas(d, instance_index)
    THEN [active_orders |-> d, last_buy_amount |-> amount]
    ELSE LET os == DictGet(d, instance_index) IN
         [active_orders |->
             DictPut(d, instance_index,
                     [f \in DOMAIN os \cup {"executed_amount"} |->
                         IF f = "executed_amount"
                         THEN IF os.order_type = "buy" THEN e.filled ELSE NoAmount
                         ELSE IF f = "order_type"
                         THEN IF os.order_type = "buy" THEN "sell" ELSE "buy"
                         ELSE os[f]]),
          last_buy_amount |-> IF os.order_type = "buy" THEN e.filled ELSE amount]
\* handle_order_execution (f_test), lines 121-147, as a function of the
\* ledger and the buy amount: a buy stores the executed amount (in the
\* record and in last_buy_amount), and the record is removed with it.
HandleOrderExecution(d, amount, instance_index, e) ==
    IF ~DictHas(d, instance_index)
    THEN [active_orders |-> d, last_buy_amount |-> amount]
    ELSE [active_orders |-> DictDel(d, instance_index),
          last_buy_amount |-> IF DictGet(d, instance_index).order_type = "buy"
                              THEN e.filled ELSE amount]

\* on_order_event (test01), lines 72-79, with the handler it dispatches to.
ExecOrderEvent(e) ==
    LET instance_index == ExecLookup(active_orders, e.order_id)
        after == HandleOrderExecution(active_orders, last_buy_amount, instance_index, e)
    IN
    /\ Len(delivered) < MaxExecEvents
    /\ delivered' = Append(delivered,
                           [order_id |-> e.order_id, filled |-> e.filled,
                            matched |-> instance_index # NoneKey])
    /\ IF instance_index # NoneKey
       THEN /\ active_orders' = after.active_orders
            /\ last_buy_amount' = after.last_buy_amount
       ELSE UNCHANGED <<active_orders, last_buy_amount>>
    /\ UNCHANGED <<order_type, current_price, exch, ordersLeft, th>>
    /\ ExecFrame

InitExec ==
    /\ InitState
    /\ eventsLeft = 0
    /\ ordersLeft = MaxExecOrders

ExecStep(t) ==
    \/ ExecStrategyCycle(t)
    \/ ExecPlaceSend(t) \/ ExecPlaceStore(t)
    \/ ExecMonitorStart(t) \/ ExecMonitorNext(t)
    \/ ExecCancel(t) \/ ExecReplaceSend(t) \/ ExecReplaceStore(t)

NextExec ==
    \/ \E t \in Callers : ExecStep(t)
    \/ \E e \in ExecEvents : ExecOrderEvent(e)
    \/ \E price \in Prices : UpdatePrice(price)

SpecExec == InitExec /\ [][NextExec]_vars

\* ======================================================================
\* Part C: graceful_shutdown.
MaxShutInstances == 3
MaxLimit == 2
MaxShutEvents == 1

\* float('inf'), the sort key of a record without limit_price.
Infinity == 1000

ShutKeys == 0..(MaxShutInstances - 1)

\* The records the ledger can hold for instance i when shutdown is called:
\* order i + 1, a buy, or a sell with or without a stored limit price and
\* executed amount.
ShutRecords(i) ==
    {[k |-> i, order_id |-> i + 1, client_order_id |-> Nil, last_price |-> 1,
      limit_price |-> l, order_type |-> "buy", executed_amount |-> a] :
        l \in {1}, a \in {MaxFill}}
    \cup
    {[k |-> i, order_id |-> i + 1, client_order_id |-> Nil, last_price |-> 1,
      limit_price |-> l, order_type |-> "sell", executed_amount |-> a] :
        l \in {Nil} \cup (1..MaxLimit), a \in {NoAmount} \cup Fills}

RECURSIVE ShutLedgersOfLen(_)
ShutLedgersOfLen(n) ==
    IF n = 0 THEN {<<>>}
    ELSE {Append(d, r) : d \in ShutLedgersOfLen(n - 1),
                         r \in UNION {ShutRecords(i) : i \in ShutKeys}}

\* Ledgers: at most one record per instance, in any insertion order.
ShutLedgers ==
    {d \in UNION {ShutLedgersOfLen(n) : n \in 0..MaxShutInstances} :
        \A m, n \in 1..Len(d) : m # n => d[m].k # d[n].k}

\* key=lambda x: x[1].get('limit_price', float('inf'))
LimitKey(r) == IF r.limit_price = Nil THEN Infinity ELSE r.limit_price

\* Insert x behind every element whose key is not larger (list.sort is
\* stable).
RECURSIVE InsertSorted(_, _)
InsertSorted(sorted, x) ==
    IF sorted = <<>> THEN <<x>>
    ELSE IF LimitKey(Head(sorted)) <= LimitKey(x)
    THEN <<Head(sorted)>> \o InsertSorted(Tail(sorted), x)
    ELSE <<x>> \o sorted

SortUnsorted(items) == items

\* sell_orders.sort(key=...), f_test line 200.
RECURSIVE SortByLimit(_)
SortByLimit(items) ==
    IF items = <<>> THEN <<>>
    ELSE InsertSorted(SortByLimit(SubSeq(items, 1, Len(items) - 1)),
                      items[Len(items)])

\* Lines 193-196: the sell records of the ledger, in dict order.
SellOrders(d) == SelectSeq(d, LAMBDA r : r.order_type = "sell")

\* Line 183: the record is a buy.
ShutIsBuyMisspelt(os) == os.order_type = "BUY"

ShutIsBuy(os) == os.order_type = "buy"

\* Variables of Part A that the f_test shutdown does not use.
ShutFrame ==
    UNCHANGED <<state, max_trades, trade_count, fixed_usdt, calc, order_type, pending_actions, pending_flags, instance_locks,
                current_price, exch, ordersLeft, flagBy, age, delivered>>

\* graceful_shutdown (f_test) is called; line 182 snapshots the items.  The
\* log of requests is that of the running call.
ShutFCall(t) ==
    /\ t = "aux" /\ th[t].pc = "idle"
    /\ th' = [th EXCEPT ![t] = [Fresh EXCEPT !.pc = "gf_buys", !.top = "shutdownF",
                                             !.items = active_orders,
                                             !.start = DictKeys(active_orders)]]
    /\ requests' = <<>>
    /\ UNCHANGED <<active_orders, last_buy_amount, eventsLeft>>
    /\ ShutFrame

\* Lines 182-187 for the next snapshot item: a buy has its cancel sent.  At
\* the end of the snapshot, lines 193-200: collect the sells and sort them.
ShutFBuyNext(t) ==
    LET r == th[t]
        os == Head(r.items)
    IN
    /\ r.pc = "gf_buys"
    /\ IF r.items = <<>>
       THEN /\ th' = [th EXCEPT ![t].pc = "gf_sells",
                                ![t].items = SortByLimit(SellOrders(active_orders)),
                                ![t].keys = DictKeys(SellOrders(active_orders))]
            /\ UNCHANGED requests
       ELSE IF ShutIsBuy(os)
       THEN /\ th' = [th EXCEPT ![t].pc = "gf_buy_del", ![t].idx = os.k,
                                ![t].items = Tail(r.items)]
            /\ requests' = Append(requests, [op |-> "cancel", rec |-> os, amount |-> Nil, ok |-> FALSE])
       ELSE /\ th' = [th EXCEPT ![t].items = Tail(r.items)]
            /\ UNCHANGED requests
    /\ UNCHANGED <<active_orders, last_buy_amount, eventsLeft>>
    /\ ShutFrame

\* Line 190: the unguarded del, KeyError when the record is gone.
ShutFBuyDel(t) ==
    LET r == th[t] IN
    /\ r.pc = "gf_buy_del"
    /\ IF DictHas(active_orders, r.idx)
       THEN /\ active_orders' = DictDel(active_orders, r.idx)
            /\ th' = [th EXCEPT ![t].pc = "gf_buys", ![t].idx = NoneKey]
       ELSE /\ th' = [th EXCEPT ![t] = AfterRaise(r)]
            /\ UNCHANGED active_orders
    /\ UNCHANGED <<last_buy_amount, eventsLeft, requests>>
    /\ ShutFrame

\* Lines 201-206 for the next sorted sell: its cancel is sent.
ShutFSellNext(t) ==
    LET r == th[t]
        os == Head(r.items)
    IN
    /\ r.pc = "gf_sells"
    /\ IF r.items = <<>>
       THEN /\ th' = [th EXCEPT ![t] = AfterReturn(r)]
            /\ UNCHANGED requests
       ELSE /\ th' = [th EXCEPT ![t].pc = "gf_cancelled", ![t].idx = os.k]
            /\ requests' = Append(requests, [op |-> "cancel", rec |-> os, amount |-> Nil, ok |-> FALSE])
    /\ UNCHANGED <<active_orders, last_buy_amount, eventsLeft>>
    /\ ShutFrame

\* Lines 222-224: the guarded del of the finally clause.
ShutForget(d, key) == IF DictHas(d, key) THEN DictDel(d, key) ELSE d

\* Line 210, negated: the amount is neither None nor zero nor negative.
ValidAmountOrZero(amount) == amount # NoAmount

ValidAmount(amount) == amount # NoAmount /\ amount > 0

\* order_state.get('executed_amount'): None for a record without the field.
ExecutedAmount(os) ==
    IF "executed_amount" \in DOMAIN os THEN os.executed_amount ELSE NoAmount

\* Lines 206-219: the cancel returned True or False, which the log records;
\* after a successful cancel a valid executed amount is sold at market.
ShutFSellCancelled(t) ==
    LET r == th[t]
        os == Head(r.items)
        amount == ExecutedAmount(os)
    IN
    /\ r.pc = "gf_cancelled"
    /\ \E cancelled \in BOOLEAN :
          LET answered == [requests EXCEPT ![Len(requests)].ok = cancelled] IN
          IF cancelled /\ ValidAmount(amount)
          THEN /\ requests' = Append(answered, [op |-> "market", rec |-> os,
                                                amount |-> amount, ok |-> FALSE])
               /\ th' = [th EXCEPT ![t].pc = "gf_market"]
               /\ UNCHANGED active_orders
          ELSE /\ active_orders' = ShutForget(active_orders, r.idx)
               /\ th' = [th EXCEPT ![t].pc = "gf_sells", ![t].items = Tail(r.items)]
               /\ requests' = answered
    /\ UNCHANGED <<last_buy_amount, eventsLeft>>
    /\ ShutFrame

\* Lines 213-224: the market order returned (an order, None, or an exception
\* the except clause logs); the finally clause forgets the instance.
ShutFSellFinish(t) ==
    LET r == th[t] IN
    /\ r.pc = "gf_market"
    /\ active_orders' = ShutForget(active_orders, r.idx)
    /\ th' = [th EXCEPT ![t].pc = "gf_sells", ![t].items = Tail(r.items)]
    /\ UNCHANGED <<last_buy_amount, eventsLeft, requests>>
    /\ ShutFrame

\* on_order_event (test01) with handle_order_execution (f_test), delivered
\* while the shutdown runs.
ShutFOrderEvent(e) ==
    LET instance_index == ExecLookup(active_orders, e.order_id)
        after == HandleOrderExecution(active_orders, last_buy_amount, instance_index, e)
    IN
    /\ eventsLeft > 0
    /\ eventsLeft' = eventsLeft - 1
    /\ IF instance_index # NoneKey
       THEN /\ active_orders' = after.active_orders
            /\ last_buy_amount' = after.last_buy_amount
       ELSE UNCHANGED <<active_orders, last_buy_amount>>
    /\ UNCHANGED <<th, requests>>
    /\ ShutFrame

\* The ledger when graceful_shutdown is called, with the orders behind it.
InitShutdownF ==
    /\ active_orders \in ShutLedgers
    /\ order_type = "buy"
    /\ last_buy_amount = NoAmount
    /\ pending_actions = {}
    /\ InitCoordination
    /\ current_price = 1
    /\ exch = [o \in 1..MaxShutInstances |-> [side |-> "buy", ws |-> FALSE]]
    /\ th = [t \in Callers |-> Fresh]
    /\ flagBy = [i \in Instances |-> "none"]
    /\ age = [i \in Instances |-> 0]
    /\ delivered = <<>>
    /\ requests = <<>>
    /\ fixed_usdt = FixedUsdt
    /\ calc = NoCalc
    /\ state = NoState
    /\ trade_count = 0
    /\ max_trades = Nil
    /\ eventsLeft = MaxShutEvents
    /\ ordersLeft = 0

ShutFStep(t) ==
    \/ ShutFCall(t) \/ ShutFBuyNext(t) \/ ShutFBuyDel(t)
    \/ ShutFSellNext(t) \/ ShutFSellCancelled(t) \/ ShutFSellFinish(t)

NextShutdownF ==
    \/ \E t \in Callers : ShutFStep(t)
    \/ \E e \in ExecEvents : ShutFOrderEvent(e)

SpecShutdownF == InitShutdownF /\ [][NextShutdownF]_vars

\* graceful_shutdown (f_test) called while the program of Part B runs, from
\* the start of the program with the ledger's side buy, or sell with the buy
\* amount a sell is sized from.  The ledger
\* holds the records place_new_orders and cancel_and_replace stored.  Lines
\* 213-221 behind a market order (ShutFSellFinish) are left out of the
\* steps: they need a market request to have been made.
InitExecShutdown ==
    /\ active_orders = <<>>
    /\ order_type \in Sides
    /\ last_buy_amount = IF order_type = "sell" THEN MaxFill ELSE NoAmount
    /\ pending_actions = {}
    /\ InitCoordination
    /\ current_price \in Prices
    /\ exch = <<>>
    /\ th = [t \in Callers |-> Fresh]
    /\ flagBy = [i \in Instances |-> "none"]
    /\ age = [i \in Instances |-> 0]
    /\ delivered = <<>>
    /\ requests = <<>>
    /\ fixed_usdt = FixedUsdt
    /\ calc = NoCalc
    /\ state = NoState
    /\ trade_count = 0
    /\ max_trades = Nil
    /\ eventsLeft = 0
    /\ ordersLeft = MaxExecOrders

NextExecShutdown ==
    \/ \E t \in Callers : ExecStep(t)
    \/ \E e \in ExecEvents : ExecOrderEvent(e)
    \/ \E price \in Prices : UpdatePrice(price)
    \/ \E t \in Callers :
          \/ ShutFCall(t) \/ ShutFBuyNext(t) \/ ShutFBuyDel(t)
          \/ ShutFSellNext(t) \/ ShutFSellCancelled(t)

SpecExecShutdown == InitExecShutdown /\ [][NextExecShutdown]_vars

\* --------------------------------------- graceful_shutdown (amend/A)
\* The records place_new_orders stores over the push channel (lines 62-67)
\* for instance i, order i + 1: a buy, or a sell with a limit price and with
\* or without an executed amount.
ShutARecords(i) ==
    {[k |-> i, order_id |-> Nil, client_order_id |-> i + 1, last_price |-> 1,
      limit_price |-> 1, order_type |-> "buy", executed_amount |-> NoAmount]}
    \cup
    {[k |-> i, order_id |-> Nil, client_order_id |-> i + 1, last_price |-> 1,
      limit_price |-> l, order_type |-> "sell", executed_amount |-> a] :
        l \in 1..MaxLimit, a \in {NoAmount} \cup Fills}

RECURSIVE ShutALedgersOfLen(_)
ShutALedgersOfLen(n) ==
    IF n = 0 THEN {<<>>}
    ELSE {Append(d, r) : d \in ShutALedgersOfLen(n - 1),
                         r \in UNION {ShutARecords(i) : i \in Instances}}

\* The ledgers graceful_shutdown can be called on: distinct instances of the
\* configured range, in any insertion order.
ShutALedgers ==
    {d \in UNION {ShutALedgersOfLen(n) : n \in 0..NumInstances} :
        \A m, n \in 1..Len(d) : d[m].k = d[n].k => m = n}

\* Variables the amend/A shutdown does not use.
ShutAFrame ==
    UNCHANGED <<state, max_trades, trade_count, fixed_usdt, calc, order_type, last_buy_amount, pending_actions, pending_flags,
                current_price, exch, ordersLeft, eventsLeft, flagBy, age, delivered>>

\* graceful_shutdown (amend/A) is called; line 164 lists the keys.  The log
\* of requests is that of the running call.
ShutACall(t) ==
    /\ t = "aux" /\ th[t].pc = "idle"
    /\ th' = [th EXCEPT ![t] = [Fresh EXCEPT !.pc = "ga_buys", !.top = "shutdownA",
                                             !.keys = DictKeys(active_orders),
                                             !.start = DictKeys(active_orders)]]
    /\ requests' = <<>>
    /\ UNCHANGED <<active_orders, instance_locks>>
    /\ ShutAFrame

\* Lines 164-175 for the next listed key: the lock lookup of line 165 raises
\* KeyError for a key that is no instance; under the lock a buy has its
\* cancel sent.  At the end of the list, lines 178-183: collect the sells and
\* sort them.
ShutABuyNext(t) ==
    LET r == th[t]
        i == Head(r.keys)
        os == DictGet(active_orders, i)
    IN
    /\ r.pc = "ga_buys"
    /\ IF r.keys = <<>>
       THEN /\ th' = [th EXCEPT ![t].pc = "ga_sells",
                                ![t].items = SortByLimit(SellOrders(active_orders))]
            /\ UNCHANGED <<requests, instance_locks>>
       ELSE IF i \notin Instances
       THEN /\ th' = [th EXCEPT ![t] = AfterRaise(r)]
            /\ UNCHANGED <<requests, instance_locks>>
       ELSE /\ LockFree(i)
            /\ IF DictHas(active_orders, i) /\ ShutIsBuy(os)
               THEN /\ th' = [th EXCEPT ![t].pc = "ga_buy_del", ![t].idx = i,
                                        ![t].keys = Tail(r.keys)]
                    /\ instance_locks' = [instance_locks EXCEPT ![i] = t]
                    /\ requests' = Append(requests, [op |-> "cancel", rec |-> os,
                                                     amount |-> Nil, ok |-> FALSE])
               ELSE /\ th' = [th EXCEPT ![t].keys = Tail(r.keys)]
                    /\ UNCHANGED <<requests, instance_locks>>
    /\ UNCHANGED active_orders
    /\ ShutAFrame

\* Line 176: the unguarded del, KeyError when the record is gone; the lock
\* is released either way.
ShutABuyDel(t) ==
    LET r == th[t] IN
    /\ r.pc = "ga_buy_del"
    /\ instance_locks' = [instance_locks EXCEPT ![r.idx] = "free"]
    /\ IF DictHas(active_orders, r.idx)
       THEN /\ active_orders' = DictDel(active_orders, r.idx)
            /\ th' = [th EXCEPT ![t].pc = "ga_buys", ![t].idx = NoneKey]
       ELSE /\ th' = [th EXCEPT ![t] = AfterRaise(r)]
            /\ UNCHANGED active_orders
    /\ UNCHANGED requests
    /\ ShutAFrame

\* Lines 184-192 for the next sorted sell: under its lock the cancel is sent.
ShutASellNext(t) ==
    LET r == th[t]
        os == Head(r.items)
    IN
    /\ r.pc = "ga_sells"
    /\ IF r.items = <<>>
       THEN /\ th' = [th EXCEPT ![t] = AfterReturn(r)]
            /\ UNCHANGED <<requests, instance_locks>>
       ELSE /\ LockFree(os.k)
            /\ instance_locks' = [instance_locks EXCEPT ![os.k] = t]
            /\ th' = [th EXCEPT ![t].pc = "ga_cancelled", ![t].idx = os.k]
            /\ requests' = Append(requests, [op |-> "cancel", rec |-> os,
                                             amount |-> Nil, ok |-> FALSE])
    /\ UNCHANGED active_orders
    /\ ShutAFrame

\* Lines 192-209: cancel_order_ws returned True or False, which the log
\* records; after a successful cancel a valid executed amount is sold at
\* market, otherwise the finally clause forgets the instance.
ShutASellCancelled(t) ==
    LET r == th[t]
        os == Head(r.items)
        amount == ExecutedAmount(os)
    IN
    /\ r.pc = "ga_cancelled"
    /\ \E cancelled \in BOOLEAN :
          LET answered == [requests EXCEPT ![Len(requests)].ok = cancelled] IN
          IF cancelled /\ ValidAmount(amount)
          THEN /\ requests' = Append(answered, [op |-> "market", rec |-> os,
                                                amount |-> amount, ok |-> FALSE])
               /\ th' = [th EXCEPT ![t].pc = "ga_market"]
               /\ UNCHANGED <<active_orders, instance_locks>>
          ELSE /\ active_orders' = ShutForget(active_orders, r.idx)
               /\ instance_locks' = [instance_locks EXCEPT ![r.idx] = "free"]
               /\ th' = [th EXCEPT ![t].pc = "ga_sells", ![t].items = Tail(r.items)]
               /\ requests' = answered
    /\ ShutAFrame

\* Lines 198-209: place_market_order_ws returned; the finally clause forgets
\* the instance and the lock is released.
ShutASellFinish(t) ==
    LET r == th[t] IN
    /\ r.pc = "ga_market"
    /\ active_orders' = ShutForget(active_orders, r.idx)
    /\ instance_locks' = [instance_locks EXCEPT ![r.idx] = "free"]
    /\ th' = [th EXCEPT ![t].pc = "ga_sells", ![t].items = Tail(r.items)]
    /\ UNCHANGED requests
    /\ ShutAFrame

\* The ledger when graceful_shutdown is called, with the orders behind it:
\* order i + 1 was placed over the push channel for instance i.
InitShutdownA ==
    /\ active_orders \in ShutALedgers
    /\ order_type = "buy"
    /\ last_buy_amount = NoAmount
    /\ pending_actions = {}
    /\ InitCoordination
    /\ current_price = 1
    /\ exch = [o \in 1..NumInstances |->
                 [side |-> IF DictHas(active_orders, o - 1)
                           THEN DictGet(active_orders, o - 1).order_type
                           ELSE "buy",
                  ws |-> TRUE]]
    /\ th = [t \in Callers |-> Fresh]
    /\ flagBy = [i \in Instances |-> "none"]
    /\ age = [i \in Instances |-> 0]
    /\ delivered = <<>>
    /\ requests = <<>>
    /\ fixed_usdt = FixedUsdt
    /\ calc = NoCalc
    /\ state = NoState
    /\ trade_count = 0
    /\ max_trades = Nil
    /\ eventsLeft = MaxShutEvents
    /\ ordersLeft = 0

ShutAStep(t) ==
    \/ ShutACall(t) \/ ShutABuyNext(t) \/ ShutABuyDel(t)
    \/ ShutASellNext(t) \/ ShutASellCancelled(t) \/ ShutASellFinish(t)

\* The shutdown in thread "aux" with the push channel's order events.
NextShutdownA ==
    \/ \E t \in Callers : ShutAStep(t)
    \/ \E e \in Events : OnOrderEvent(e)

SpecShutdownA == InitShutdownA /\ [][NextShutdownA]_vars

\* =========================================================== Part E
\* The single-order manager: OrderManager of src/test01/order_manager.py on
\* the OrderState of src/test (active, order_type, last_price, order_id),
\* driven by manage_strategy and on_order_event of src/test/trading_strategy.py,
\* with recover_state also called as an entry point by thread "aux".  An
\* order at the exchange is [side, ws, st]: open, executed, cancelled (by a
\* cancel request) or reported (its 'canceled' event was delivered).
MaxSingleOrders == 2
MaxSingleEvents == 2
PlaceMaxRetries == 5
RecoverMaxRetries == 3

SingleFrame ==
    UNCHANGED <<active_orders, pending_actions, pending_flags, instance_locks,
                eventsLeft, flagBy, age, requests, fixed_usdt, calc,
                max_trades, trade_count>>

\* manage_strategy (src/test), lines 121-127: place when no order is active,
\* else monitor.
SingleStrategyCycle(t) ==
    /\ t = "loop" /\ th[t].pc = "idle"
    /\ th' = [th EXCEPT ![t] =
                 IF ~state.active
                 THEN [Fresh EXCEPT !.strat = TRUE, !.pc = "sp_attempt", !.top = "place"]
                 ELSE [Fresh EXCEPT !.strat = TRUE, !.pc = "sm_check", !.top = "monitor"]]
    /\ UNCHANGED <<state, order_type, last_buy_amount, current_price, exch,
                   ordersLeft, delivered>>
    /\ SingleFrame

\* Any other caller of recover_state; line 117 captures the order type.
SingleCallRecover(t) ==
    /\ t = "aux" /\ th[t].pc = "idle"
    /\ th' = [th EXCEPT ![t] = [Fresh EXCEPT !.pc = "sr_attempt", !.top = "recover",
                                             !.ot = order_type]]
    /\ UNCHANGED <<state, order_type, last_buy_amount, current_price, exch,
                   ordersLeft, delivered>>
    /\ SingleFrame

PlaceRetriesLeftInclusive(retries) == retries <= PlaceMaxRetries
\* place_new_order, line 15: `while retries < max_retries`.
PlaceRetriesLeft(retries) == retries < PlaceMaxRetries

\* place_new_order, lines 15-30 and 38-44: one pass of the retry loop up to
\* the answer of the REST client (the order or None).
SinglePlaceAttempt(t) ==
    LET r == th[t]
        side == PlacementSide(order_type)
    IN
    /\ r.pc = "sp_attempt"
    /\ IF ~PlaceRetriesLeft(r.tries) \/ (side = "sell" /\ last_buy_amount = NoAmount)
       THEN /\ th' = [th EXCEPT ![t] = Fresh]
            /\ UNCHANGED <<exch, ordersLeft>>
       ELSE \/ /\ ordersLeft > 0
               /\ ordersLeft' = ordersLeft - 1
               /\ exch' = Append(exch, [side |-> side, ws |-> FALSE, st |-> "open"])
               /\ th' = [th EXCEPT ![t].pc = "sp_store", ![t].np = current_price,
                                   ![t].ot = side, ![t].tries = r.tries + 1,
                                   ![t].res = [ok |-> TRUE, id |-> NextId, cid |-> Nil]]
            \/ /\ th' = [th EXCEPT ![t].tries = r.tries + 1]
               /\ UNCHANGED <<exch, ordersLeft>>
    /\ UNCHANGED <<state, order_type, last_buy_amount, current_price, delivered>>
    /\ SingleFrame

\* place_new_order, lines 31-37: the order was placed.
SinglePlaceStore(t) ==
    LET r == th[t] IN
    /\ r.pc = "sp_store"
    /\ state' = [active |-> TRUE, last_price |-> r.np, order_id |-> r.res.id]
    /\ order_type' = r.ot
    /\ th' = [th EXCEPT ![t] = Fresh]
    /\ UNCHANGED <<last_buy_amount, current_price, exch, ordersLeft, delivered>>
    /\ SingleFrame

\* monitor_active_order, lines 46-56, and line 59 of cancel_and_replace.
SingleMonitor(t) ==
    LET r == th[t] IN
    /\ r.pc = "sm_check"
    /\ IF \/ order_type = "buy" /\ current_price < state.last_price
          \/ order_type = "sell" /\ current_price > state.last_price
       THEN th' = [th EXCEPT ![t].pc = "sc_cancel", ![t].cur = state.order_id]
       ELSE th' = [th EXCEPT ![t] = Fresh]
    /\ UNCHANGED <<state, order_type, last_buy_amount, current_price, exch,
                   ordersLeft, delivered>>
    /\ SingleFrame

\* cancel_and_replace, line 62: the cancel request reaches the exchange,
\* which cancels an open order and refuses any other.
SingleCancelSend(t) ==
    LET r == th[t] IN
    /\ r.pc = "sc_cancel"
    /\ IF r.cur \in 1..Len(exch) /\ exch[r.cur].st = "open"
       THEN \/ /\ exch' = [exch EXCEPT ![r.cur].st = "cancelled"]
               /\ th' = [th EXCEPT ![t].pc = "sc_return", ![t].sent = TRUE]
            \/ /\ th' = [th EXCEPT ![t].pc = "sc_return", ![t].sent = FALSE]
               /\ UNCHANGED exch
       ELSE /\ th' = [th EXCEPT ![t].pc = "sc_return", ![t].sent = FALSE]
            /\ UNCHANGED exch
    /\ UNCHANGED <<state, order_type, last_buy_amount, current_price, ordersLeft,
                   delivered>>
    /\ SingleFrame

\* cancel_and_replace, lines 62-73 and 81-83: cancel_order has returned; on
\* True the order is marked inactive, the price read, a sell sized.
SingleCancelReturn(t) ==
    LET r == th[t] IN
    /\ r.pc = "sc_return"
    /\ IF r.sent
       THEN /\ state' = [state EXCEPT !.active = FALSE]
            /\ th' = [th EXCEPT ![t] =
                         IF order_type = "sell" /\ last_buy_amount = NoAmount
                         THEN Fresh
                         ELSE [r EXCEPT !.pc = "sc_place", !.np = current_price,
                                        !.sent = FALSE]]
       ELSE /\ th' = [th EXCEPT ![t] = Fresh]
            /\ UNCHANGED state
    /\ UNCHANGED <<order_type, last_buy_amount, current_price, exch, ordersLeft,
                   delivered>>
    /\ SingleFrame

\* cancel_and_replace, lines 74 and 80-81: the replacement order, of the side
\* state.order_type holds when the request is made.
SingleReplaceSend(t) ==
    LET r == th[t] IN
    /\ r.pc = "sc_place"
    /\ \/ /\ ordersLeft > 0 /\ order_type # "none"
          /\ ordersLeft' = ordersLeft - 1
          /\ exch' = Append(exch, [side |-> order_type, ws |-> FALSE, st |-> "open"])
          /\ th' = [th EXCEPT ![t].pc = "sc_store", ![t].ot = order_type,
                              ![t].res = [ok |-> TRUE, id |-> NextId, cid |-> Nil]]
       \/ /\ th' = [th EXCEPT ![t] = Fresh]
          /\ UNCHANGED <<exch, ordersLeft>>
    /\ UNCHANGED <<state, order_type, last_buy_amount, current_price, delivered>>
    /\ SingleFrame

\* cancel_and_replace, lines 75-79: the replacement is recorded.
SingleReplaceStore(t) ==
    LET r == th[t] IN
    /\ r.pc = "sc_store"
    /\ state' = [active |-> TRUE, last_price |-> r.np, order_id |-> r.res.id]
    /\ th' = [th EXCEPT ![t] = Fresh]
    /\ UNCHANGED <<order_type, last_buy_amount, current_price, exch, ordersLeft,
                   delivered>>
    /\ SingleFrame

\* recover_state, lines 119-123 and 129-135: one pass of the retry loop up
\* to the answer of cancel_order.
SingleRecoverAttempt(t) ==
    LET r == th[t]
        o == state.order_id
    IN
    /\ r.pc = "sr_attempt"
    /\ IF r.tries >= RecoverMaxRetries
       THEN /\ th' = [th EXCEPT ![t] = Fresh]
            /\ UNCHANGED exch
       ELSE IF o = Nil
       THEN /\ th' = [th EXCEPT ![t].pc = "sr_reset", ![t].tries = r.tries + 1]
            /\ UNCHANGED exch
       ELSE \/ /\ o \in 1..Len(exch) /\ exch[o].st = "open"
               /\ exch' = [exch EXCEPT ![o].st = "cancelled"]
               /\ th' = [th EXCEPT ![t].pc = "sr_reset", ![t].tries = r.tries + 1]
            \/ /\ th' = [th EXCEPT ![t].tries = r.tries + 1]
               /\ UNCHANGED exch
    /\ UNCHANGED <<state, order_type, last_buy_amount, current_price, ordersLeft,
                   delivered>>
    /\ SingleFrame

\* recover_state, lines 124-128: the reset.
SingleRecoverReset(t) ==
    LET r == th[t] IN
    /\ r.pc = "sr_reset"
    /\ state' = [state EXCEPT !.active = FALSE, !.order_id = Nil]
    /\ order_type' = PlacementSide(r.ot)
    /\ th' = [th EXCEPT ![t] = Fresh]
    /\ UNCHANGED <<last_buy_amount, current_price, exch, ordersLeft, delivered>>
    /\ SingleFrame

\* The order events the push client forwards (w_test/test/test.py lines
\* 48-56: status closed, filled or canceled): the execution of an open
\* order, the cancellation the exchange carried out, or an event for an
\* order of the same account that the bot did not place.
SingleEvents ==
    {[order_id |-> o, status |-> "filled", filled |-> f] :
        o \in {n \in 1..Len(exch) : exch[n].st = "open"}, f \in Fills}
    \cup
    {[order_id |-> o, status |-> "canceled", filled |-> 0] :
        o \in {n \in 1..Len(exch) : exch[n].st = "cancelled"}}
    \cup
    {[order_id |-> ForeignId, status |-> "filled", filled |-> f] : f \in Fills}

\* on_order_event (src/test), lines 68-77.
SingleMatches(e) == state.active /\ e.order_id = state.order_id

\* on_order_event with handle_order_execution (lines 88-111) behind it.
SingleOrderEvent(e) ==
    /\ Len(delivered) < MaxSingleEvents
    /\ delivered' = Append(delivered,
                           [order_id |-> e.order_id, filled |-> e.filled,
                            matched |-> SingleMatches(e)])
    /\ exch' = IF e.order_id = ForeignId THEN exch
               ELSE [exch EXCEPT ![e.order_id].st =
                        IF e.status = "canceled" THEN "reported" ELSE "executed"]
    /\ IF SingleMatches(e)
       THEN /\ last_buy_amount' = IF order_type = "buy" THEN e.filled
                                  ELSE last_buy_amount
            /\ state' = [state EXCEPT !.active = FALSE]
            /\ order_type' = IF order_type = "buy" THEN "sell" ELSE "buy"
       ELSE UNCHANGED <<last_buy_amount, state, order_type>>
    /\ UNCHANGED <<current_price, th, ordersLeft>>
    /\ SingleFrame

SinglePrice(price) ==
    /\ price # current_price
    /\ current_price' = price
    /\ UNCHANGED <<state, order_type, last_buy_amount, exch, th, ordersLeft,
                   delivered>>
    /\ SingleFrame

\* OrderState.__init__ (src/test): nothing active, no order type yet.
InitSingle ==
    /\ active_orders = <<>>
    /\ order_type = "none"
    /\ last_buy_amount = NoAmount
    /\ pending_actions = {}
    /\ InitCoordination
    /\ current_price \in Prices
    /\ exch = <<>>
    /\ th = [t \in Callers |-> Fresh]
    /\ flagBy = [i \in Instances |-> "none"]
    /\ age = [i \in Instances |-> 0]
    /\ delivered = <<>>
    /\ requests = <<>>
    /\ fixed_usdt = FixedUsdt
    /\ calc = NoCalc
    /\ state = NoState
    /\ max_trades = Nil
    /\ trade_count = 0
    /\ eventsLeft = 0
    /\ ordersLeft = MaxSingleOrders

SingleStep(t) ==
    \/ SingleStrategyCycle(t) \/ SingleCallRecover(t)
    \/ SinglePlaceAttempt(t) \/ SinglePlaceStore(t)
    \/ SingleMonitor(t)
    \/ SingleCancelSend(t) \/ SingleCancelReturn(t)
    \/ SingleReplaceSend(t) \/ SingleReplaceStore(t)
    \/ SingleRecoverAttempt(t) \/ SingleRecoverReset(t)

NextSingle ==
    \/ \E t \in Callers : SingleStep(t)
    \/ \E e \in SingleEvents : SingleOrderEvent(e)
    \/ \E price \in Prices : SinglePrice(price)

SpecSingle == InitSingle /\ [][NextSingle]_vars

\* =========================================================== Part D
\* The arithmetic helpers applied to drawn inputs.

\* Amounts with at most two significant digits, from one millionth up.
Amounts == {m * Pow10(s) : m \in 0..MaxMantissa, s \in 0..MaxShift}

FeeRates == 0..MaxFeeRate

RoundInputs ==
    {[NoCalc EXCEPT !.fn = "round_up_to_one_significant", !.x = x, !.low = l] :
        x \in Amounts, l \in BOOLEAN}

\* The buy amounts handle_order_execution can record (float(filled), 0 when
\* the event carries none) whose fee is a whole number of millionths.
SellInputs ==
    {c \in {[NoCalc EXCEPT !.fn = "sell_amount", !.x = x, !.low = l, !.fee_rate = f] :
               x \in Amounts, l \in BOOLEAN, f \in FeeRates} :
        (c.x * c.fee_rate) % 1000 = 0}

\* x is total_instances.
LadderInputs ==
    {[NoCalc EXCEPT !.fn = "_calculate_prices", !.x = n, !.last_price = p, !.side = sd] :
        n \in 1..MaxShutInstances, p \in 1..MaxRefPrice, sd \in Sides}

CalcFrame ==
    UNCHANGED <<active_orders, order_type, last_buy_amount, pending_actions,
                pending_flags, instance_locks, current_price, exch, th,
                eventsLeft, ordersLeft, flagBy, age, delivered, requests,
                fixed_usdt, state, max_trades, trade_count>>

\* round_up_to_one_significant(x), then the same on its own result: the
\* result is the product first_digit * factor itself, so the second call
\* compares equal doubles.
CalcRoundUp ==
    /\ calc.fn = "round_up_to_one_significant" /\ ~calc.done
    /\ LET y == RoundUpToOneSignificant(calc.x, calc.low) IN
       calc' = [calc EXCEPT !.done = TRUE,
                            !.out = <<y, RoundUpToOneSignificant(y, FALSE)>>]
    /\ CalcFrame

\* Lines 45-48 of place_new_orders with last_buy_amount = x.
CalcSellAmount ==
    /\ calc.fn = "sell_amount" /\ ~calc.done
    /\ calc' = [calc EXCEPT !.done = TRUE,
                            !.out = <<SellAmount(calc.x, calc.fee_rate, calc.low)>>]
    /\ CalcFrame

\* Line 41 of place_new_orders for instance_index in range(total_instances),
\* at one reference price.
CalcLadder ==
    /\ calc.fn = "_calculate_prices" /\ ~calc.done
    /\ calc' = [calc EXCEPT !.done = TRUE,
                            !.out = [n \in 1..calc.x |->
                                       CalculatePrices(calc.last_price, calc.side, n - 1)]]
    /\ CalcFrame

\* WSManager (src/w_test/ws_manager.py).  total_instances and
\* max_instances_per_ws are far below 2^53, where the float division of
\* line 21 is exact enough for math.ceil to be the integer ceiling.
MaxWsInstances == 6
MaxPerWs == 4

NumClientsFloor(total_instances, max_instances_per_ws) ==
    total_instances \div max_instances_per_ws
\* _create_ws_clients, line 21: math.ceil(total_instances / max_instances_per_ws).
NumClients(total_instances, max_instances_per_ws) ==
    (total_instances + max_instances_per_ws - 1) \div max_instances_per_ws

\* get_ws_client, line 45.
ClientIndex(instance_index, max_instances_per_ws) ==
    instance_index \div max_instances_per_ws

\* get_ws_client, lines 45-48: the index of the connection returned, with
\* len(self.ws_clients) = num_clients.
GetWsClient(instance_index, max_instances_per_ws, num_clients) ==
    LET client_index == ClientIndex(instance_index, max_instances_per_ws) IN
    IF client_index >= num_clients THEN num_clients - 1 ELSE client_index

\* x is total_instances.
WsInputs ==
    {[NoCalc EXCEPT !.fn = "get_ws_client", !.x = n, !.max_instances_per_ws = m] :
        n \in 1..MaxWsInstances, m \in 1..MaxPerWs}

\* WSManager.__init__ creates the connections, then get_ws_client is called
\* for every instance index in range(total_instances).
CalcWsClients ==
    /\ calc.fn = "get_ws_client" /\ ~calc.done
    /\ LET num_clients == NumClients(calc.x, calc.max_instances_per_ws) IN
       calc' = [calc EXCEPT
                   !.done = TRUE,
                   !.out = [n \in 1..calc.x |->
                              [num_clients |-> num_clients,
                               client_index |-> ClientIndex(n - 1, calc.max_instances_per_ws),
                               returned |-> GetWsClient(n - 1, calc.max_instances_per_ws,
                                                        num_clients)]]]
    /\ CalcFrame

InitCalc ==
    /\ active_orders = <<>>
    /\ order_type = "buy"
    /\ last_buy_amount = NoAmount
    /\ pending_actions = {}
    /\ InitCoordination
    /\ current_price = 1
    /\ exch = <<>>
    /\ th = [t \in Callers |-> Fresh]
    /\ flagBy = [i \in Instances |-> "none"]
    /\ age = [i \in Instances |-> 0]
    /\ delivered = <<>>
    /\ requests = <<>>
    /\ fixed_usdt = FixedUsdt
    /\ eventsLeft = 0
    /\ ordersLeft = 0
    /\ calc \in RoundInputs \cup SellInputs \cup LadderInputs \cup WsInputs
    /\ state = NoState
    /\ trade_count = 0
    /\ max_trades = Nil

NextCalc == CalcRoundUp \/ CalcSellAmount \/ CalcLadder \/ CalcWsClients

SpecCalc == InitCalc /\ [][NextCalc]_vars

\* ================================================================ claims
\* Thread t has passed the gate of lines 31-35 / 78-84 for instance i and
\* has not yet cleared the flag (line 73 / 108).
Begun(t, i) ==
    /\ th[t].idx = i
    /\ th[t].pc \in {"p_begin", "p_ws", "p_rest", "p_store",
                     "a_begin", "a_ws", "a_rest", "a_done"}

\* Thread t has a placement or amendment request for instance i under way.
InFlight(t, i) ==
    /\ th[t].idx = i
    /\ th[t].pc \in {"p_ws", "p_rest", "p_store", "a_ws", "a_rest", "a_done"}

\* A placement, amendment or recovery step for instance i is in progress.
InProgress(i) ==
    \E t \in Callers : Begun(t, i) \/ (th[t].idx = i /\ th[t].pc = "r_cancel")

\* C1: for every instance at most one placement or amendment is in flight
\* at any time: no two threads are past the gate for the same instance, and
\* while a request is in flight the instance's pending flag is set.
C1_OneActionInFlight ==
    \A i \in Instances :
        /\ \A t, u \in Callers : Begun(t, i) /\ Begun(u, i) => t = u
        /\ \A t \in Callers : InFlight(t, i) => pending_flags[i]

\* C1, its case: one thread has a request in flight for an instance while
\* another thread stands at the gate for the same instance.
C1_Witness ==
    \E i \in Instances : \E t, u \in Callers :
        /\ t # u
        /\ InFlight(t, i)
        /\ th[u].idx = i
        /\ th[u].pc \in {"p_loop", "a_enter"}

\* C2: when monitor_active_orders has dealt with an instance it did not
\* skip, an amendment request was sent for it if and only if the price had
\* moved against the order (buy: current < last price, sell: current > last
\* price).
C2_AmendIffPriceMovedAgainst ==
    \A t \in Callers :
        (th[t].top = "monitor" /\ th[t].pc = "m_loop" /\ th[t].idx \in Instances)
            => (th[t].sent <=> th[t].cond)

\* C3: no pending flag stays set after the top-level call that set it has
\* returned.
C3_FlagReleasedOnReturn ==
    \A i \in Instances : ~(pending_flags[i] /\ flagBy[i] = "gone")

\* C4: a pending flag never stays set through more polling cycles than the
\* timeout: the strategy loop's sweep releases it.
C4_StalePendingSwept ==
    \A i \in Instances : age[i] <= PendingTimeout

\* C5: while a placement, amendment or recovery step for an instance is in
\* progress, the order-event handler does not change that instance's record.
C5_HandlerSerialized ==
    [][\A e \in Events : OnOrderEvent(e) =>
          \A i \in Instances : InProgress(i) =>
              /\ DictHas(active_orders', i) = DictHas(active_orders, i)
              /\ DictHas(active_orders, i) =>
                    DictGet(active_orders', i) = DictGet(active_orders, i)]_vars

\* C6: the acknowledgement ("open" event) of an order whose placement
\* request has been accepted finds, by its client order id, the instance
\* that placed it.
C6_AckFindsCorrelation ==
    [][\A e \in Events : \A t \in Callers :
          (/\ OnOrderEvent(e)
           /\ e.status = "open"
           /\ th[t].pc = "p_store" /\ th[t].res.ok
           /\ th[t].res.cid # Nil /\ th[t].res.cid = e.cid)
          => Lookup(active_orders, e.cid) = th[t].idx]_vars

\* No record under an instance key carries the client order id.
NoInstanceMatch(d, cid) ==
    \A n \in 1..Len(d) : d[n].k \in Instances => d[n].client_order_id # cid

\* The event has been delivered before and was dispatched to an instance.
Handled(e) ==
    \E n \in 1..Len(delivered) :
        delivered[n] = [order_id |-> e.order_id, filled |-> e.filled, matched |-> TRUE]

C8_UnmatchedEventIgnored ==
    [][\A e \in Events :
          (OnOrderEvent(e) /\ NoInstanceMatch(active_orders, e.cid))
          => UNCHANGED <<active_orders, order_type, last_buy_amount>>]_vars

\* C9: when the execution of a buy order is handled (a fill event that
\* matches an instance holding a buy record), the last buy amount becomes
\* the executed amount.
C9_BuyExecutionSetsAmount ==
    [][\A e \in Events :
          (/\ OnOrderEvent(e)
           /\ e.status = "filled" /\ e.filled > 0
           /\ Lookup(active_orders, e.cid) \in Instances
           /\ DictGet(active_orders, Lookup(active_orders, e.cid)).order_type = "buy")
          => last_buy_amount' = e.filled]_vars

\* C10: when recover_state(i) returns, instance i has no record and its
\* pending flag is clear.
C10_RecoverLeavesEmpty ==
    [][\A t \in Callers :
          (/\ th[t].pc \in {"r_enter", "r_cancel"}
           /\ th'[t] = RecoverReturn(th[t])
           /\ (RecoverCheck(t) \/ RecoverFinish(t)))
          => /\ ~DictHas(active_orders', th[t].idx)
             /\ ~pending_flags'[th[t].idx]]_vars

\* C11: recover_state() without an index never ends in an exception, and
\* when it returns no instance holds a record.
C11_SweepTerminatesEmpty ==
    [][\A t \in Callers :
          th[t].top = "recoverAll" =>
              /\ ~th'[t].exc
              /\ th'[t].top # "recoverAll" =>
                    \A i \in Instances : ~DictHas(active_orders', i)]_vars

\* The step of thread t is an exception leaving the entry point it is in.
Escapes(t) ==
    /\ th[t].pc \notin {"idle", "crashed"}
    /\ th'[t] = AfterRaise(th[t])

\* C12: no exception leaves place_new_orders, monitor_active_orders,
\* amend_order or recover_state, whatever the event handler has done to the
\* ledger.
C12_NoExceptionEscapes ==
    [][\A t \in Callers : ~Escapes(t)]_vars

\* The cancels graceful_shutdown has sent for sell records, in order.
SellCancels ==
    SelectSeq(requests, LAMBDA q : q.op = "cancel" /\ q.rec.order_type = "sell")

\* The position of a key in a list of keys.
Pos(keys, k) == CHOOSE n \in 1..Len(keys) : keys[n] = k

\* Thread t is in phase 2 of graceful_shutdown.
InPhase2(t) == th[t].pc \in {"gf_sells", "gf_cancelled", "gf_market"}

\* C13: the sells are cancelled in ascending order of their stored limit
\* price, sells with equal limit prices in ledger order and sells without a
\* stored limit price last; every collected sell is cancelled or still to
\* come.
C13_SellsAscending ==
    \A t \in Callers : InPhase2(t) =>
        LET done == SellCancels
            coll == th[t].keys
            todo == IF th[t].pc = "gf_sells" THEN th[t].items ELSE Tail(th[t].items)
        IN
        /\ \A m, n \in 1..Len(done) : m < n =>
              \/ LimitKey(done[m].rec) < LimitKey(done[n].rec)
              \/ /\ LimitKey(done[m].rec) = LimitKey(done[n].rec)
                 /\ Pos(coll, done[m].rec.k) < Pos(coll, done[n].rec.k)
        /\ Len(done) + Len(todo) = Len(coll)
        /\ {done[n].rec.k : n \in 1..Len(done)} \cup {todo[n].k : n \in 1..Len(todo)}
              = {coll[n] : n \in 1..Len(coll)}

\* C13, its case: three sells were cancelled; the one first in the ledger
\* has no limit price and went last, the other two have equal limit prices.
C13_Witness ==
    \E t \in Callers :
        /\ InPhase2(t)
        /\ Len(SellCancels) = 3
        /\ SellCancels[1].rec.limit_price = SellCancels[2].rec.limit_price
        /\ SellCancels[1].rec.limit_price # Nil
        /\ SellCancels[3].rec.limit_price = Nil
        /\ th[t].keys[1] = SellCancels[3].rec.k

\* C14: graceful_shutdown works in two phases.  No cancel of a buy follows a
\* request for a sell, no buy record is left in the ledger once the first
\* request for a sell is out, and no market order is placed for a buy.
C14_BuysBeforeSells ==
    \A t \in Callers : th[t].top = "shutdownF" =>
        /\ \A m, n \in 1..Len(requests) :
              (m < n /\ requests[m].rec.order_type = "sell")
                  => requests[n].rec.order_type = "sell"
        /\ SellCancels # <<>> =>
              \A n \in 1..Len(active_orders) : active_orders[n].order_type # "buy"
        /\ \A n \in 1..Len(requests) :
              requests[n].op = "market" => requests[n].rec.order_type = "sell"

\* C14, its case: the ledger held a sell before a buy with an executed
\* amount; the buy was cancelled first, and the sell was then cancelled and
\* sold at market.
C14_Witness ==
    \E t \in Callers :
        /\ InPhase2(t)
        /\ Len(th[t].start) >= 2
        /\ Len(requests) >= 3
        /\ th[t].start[1] = requests[Len(requests)].rec.k
        /\ requests[1].op = "cancel"
        /\ requests[1].rec.order_type = "buy"
        /\ requests[1].rec.executed_amount > 0
        /\ requests[Len(requests)].op = "market"

\* Request n of the log is the cancel of a sell whose answer has been acted
\* on.
Decided(t, n) ==
    /\ requests[n].op = "cancel"
    /\ requests[n].rec.order_type = "sell"
    /\ n < Len(requests) \/ th[t].pc = "gf_sells"

\* The request after request n is the market sell of the executed amount of
\* the record request n cancelled.
MarketFollows(n) ==
    /\ n < Len(requests)
    /\ requests[n + 1] = [op |-> "market", rec |-> requests[n].rec,
                          amount |-> requests[n].rec.executed_amount, ok |-> FALSE]

\* Every market sell directly follows the cancel of the same record, and no
\* instance has two.
MarketAfterCancelOnce ==
    /\ \A n \in 1..Len(requests) : requests[n].op = "market" =>
          /\ n > 1
          /\ requests[n - 1].op = "cancel"
          /\ requests[n - 1].rec = requests[n].rec
    /\ \A m, n \in 1..Len(requests) :
          (requests[m].op = "market" /\ requests[n].op = "market"
              /\ requests[m].rec.k = requests[n].rec.k) => m = n

ShutdownReturns(t) ==
    /\ th[t].top = "shutdownA"
    /\ th'[t].top # "shutdownA"
    /\ ~th'[t].exc

\* C15: when graceful_shutdown returns, no instance that was in the ledger
\* when it was called is in the ledger.
C15_ShutdownEmptiesLedger ==
    [][\A t \in Callers : ShutdownReturns(t) =>
          \A n \in 1..Len(th[t].start) : ~DictHas(active_orders', th[t].start[n])]_vars

\* Thread t leaves lines 61-73 of place_new_orders with this step, both
\* placements having failed.
PlaceFails(t) ==
    /\ th[t].pc = "p_store"
    /\ ~th[t].res.ok
    /\ th'[t].pc # "p_store"

\* C17: when both placements fail for index i, no record is stored, the
\* instance is Empty, its flag is released, and the same call goes on with
\* index i + 1.
C17_FailedPlacementIsLocal ==
    [][\A t \in Callers : PlaceFails(t) =>
          LET i == th[t].idx IN
          /\ active_orders' = active_orders
          /\ ~DictHas(active_orders', i)
          /\ ~pending_flags'[i]
          /\ th'[t].top = "place"
          /\ th'[t].pc = "p_loop"
          /\ th'[t].idx = i + 1
          /\ ~th'[t].exc]_vars

\* C17, its case: the call has been through the ladder; both placements
\* failed for index 0, which is Empty with its flag released, and the order
\* of index 1 was placed after that.
C17_Witness ==
    \E t \in Callers :
        /\ th[t].top = "place"
        /\ th[t].pc = "p_loop"
        /\ th[t].idx = NumInstances
        /\ eventsLeft = MaxEvents
        /\ ~DictHas(active_orders, 0)
        /\ ~pending_flags[0]
        /\ DictHas(active_orders, 1)

\* Thread t leaves amend_order with this step, the amendment having failed
\* on both paths.
AmendFails(t) ==
    /\ th[t].pc = "a_done"
    /\ ~th[t].res.ok
    /\ th'[t].pc # "a_done"

\* C20: when an amendment has failed on both paths the record of the
\* instance is the one read before the attempt, unchanged, the instance is
\* Active and its flag is released.
C20_FailedAmendKeepsRecord ==
    [][\A t \in Callers : AmendFails(t) =>
          LET i == th[t].idx IN
          /\ th[t].att
          /\ DictHas(active_orders', i)
          /\ active_orders' = active_orders
          /\ ~pending_flags'[i]]_vars

\* Thread t leaves lines 37-54 of place_new_orders with this step, the side
\* being sell and no buy amount on record.
SellSkipped(t) ==
    /\ th[t].pc = "p_begin"
    /\ order_type = "sell"
    /\ last_buy_amount = NoAmount
    /\ th'[t].pc # "p_begin"

\* C18: a sell without last_buy_amount sends nothing on either path for the
\* index, leaves the instance Empty with its flag released, and the same
\* call goes on with the next index.
C18_SellWithoutAmountSkipped ==
    [][\A t \in Callers : SellSkipped(t) =>
          LET i == th[t].idx IN
          /\ exch' = exch
          /\ ordersLeft' = ordersLeft
          /\ active_orders' = active_orders
          /\ ~DictHas(active_orders', i)
          /\ ~pending_flags'[i]
          /\ th'[t].top = "place"
          /\ th'[t].pc = "p_loop"
          /\ th'[t].idx = i + 1]_vars

\* C18, its case: the side is sell, no buy amount is on record, and the call
\* has been through the whole ladder without sending an order.
C18_Witness ==
    \E t \in Callers :
        /\ th[t].top = "place"
        /\ th[t].pc = "p_loop"
        /\ th[t].idx = NumInstances
        /\ order_type = "sell"
        /\ last_buy_amount = NoAmount
        /\ exch = <<>>
        /\ active_orders = <<>>
        /\ \A i \in Instances : ~pending_flags[i]

\* Instance i has no record and no action in flight.
Empty(i) == ~DictHas(active_orders, i) /\ ~pending_flags[i]

\* C19: a polling cycle of the strategy loop that starts while an instance
\* is Empty attempts the placement, whatever the other instances hold.
C19_EmptyRetriedNextCycle ==
    [][(th["loop"].pc = "idle" /\ th'["loop"].pc # "idle"
            /\ \E i \in Instances : Empty(i))
          => th'["loop"].top = "place"]_vars

\* Thread t leaves amend_order with this step, the amendment having been
\* accepted on one of the two paths.
AmendSucceeds(t) ==
    /\ th[t].pc = "a_done"
    /\ th[t].res.ok
    /\ th'[t].pc # "a_done"

\* C21: after a successful amendment the record of the instance holds the
\* price read during the amendment as last_price and the limit price
\* computed from it, the one sent to the exchange, as limit_price.
C21_AmendStoresNewPrices ==
    [][\A t \in Callers : AmendSucceeds(t) =>
          LET i == th[t].idx IN
          /\ DictHas(active_orders', i)
          /\ DictGet(active_orders', i).last_price = th[t].np
          /\ DictGet(active_orders', i).limit_price =
                CalculatePrices(th[t].np, DictGet(active_orders', i).order_type, i)[2]]_vars

\* Thread t enters the REST fallback of a placement or amendment with this
\* step.
FallbackInvoked(t) ==
    /\ th'[t].pc \in {"p_rest", "a_rest"}
    /\ th'[t].pc # th[t].pc

\* Thread t ends the two attempts of a placement or amendment with this
\* step, with nothing placed or amended.
ReportedFailed(t) ==
    /\ th'[t].pc \in {"p_store", "a_done"}
    /\ th'[t].pc # th[t].pc
    /\ ~th'[t].res.ok

\* C22: the REST fallback of a placement or amendment is entered only from
\* the push attempt of the same operation, when that attempt returned
\* nothing; a push attempt that returned an order goes on without the
\* fallback; and the operation ends without a result only after the
\* fallback returned nothing too.
C22_FallbackOnlyAfterPushFailed ==
    [][\A t \in Callers :
          /\ FallbackInvoked(t) =>
                /\ th[t].pc = (IF th'[t].pc = "p_rest" THEN "p_ws" ELSE "a_ws")
                /\ th'[t].idx = th[t].idx
                /\ ~th'[t].res.ok
                /\ exch' = exch
          /\ (th[t].pc \in {"p_ws", "a_ws"} /\ th'[t].pc # th[t].pc /\ th'[t].res.ok) =>
                th'[t].pc \in {"p_store", "a_done"}
          /\ ReportedFailed(t) =>
                th[t].pc = (IF th'[t].pc = "p_store" THEN "p_rest" ELSE "a_rest")]_vars

\* C22, its case: the order of an instance was placed by the fallback after
\* the push attempt had failed, and an amendment is in its fallback after
\* its push attempt failed.
C22_Witness ==
    \E t \in Callers :
        /\ th[t].pc = "a_rest"
        /\ DictHas(active_orders, th[t].idx)
        /\ DictGet(active_orders, th[t].idx).order_id # Nil
        /\ DictGet(active_orders, th[t].idx).client_order_id = Nil

\* C23: when the REST fallback of a placement or amendment is entered, the
\* push attempt of that operation has been made once and then retried
\* MaxPushRetries times.
C23_PushRetriedBeforeFallback ==
    [][\A t \in Callers :
          FallbackInvoked(t) => th'[t].tries = 1 + MaxPushRetries]_vars

\* Thread t has a placement or amendment request for its instance on the
\* network, or is about to send it.
OnNetwork(t) == th[t].pc \in {"p_ws", "p_rest", "a_ws", "a_rest"}

\* C24: no thread holds the lock of an instance while a placement or
\* amendment request for that instance is on the network.
C24_NoLockDuringRoundTrip ==
    \A t \in Callers :
        OnNetwork(t) => instance_locks[th[t].idx] # t

\* The order behind a ledger record: the push path stores its
\* client_order_id, the REST fallback the exchange's id.
OrderOf(r) == IF r.client_order_id # Nil THEN r.client_order_id ELSE r.order_id

\* The client_order_id the exchange's events carry for order o.
EventCid(o) == IF exch[o].ws THEN o ELSE Nil

\* C25: no two Active instances carry the same client_order_id, and an
\* event of the order an Active instance i holds resolves to i, whether the
\* order was placed over the push path or over the REST fallback.
C25_ClientOrderIdResolves ==
    /\ \A m, n \in 1..Len(active_orders) :
          (m # n /\ active_orders[m].k \in Instances /\ active_orders[n].k \in Instances)
              => active_orders[m].client_order_id # active_orders[n].client_order_id
    /\ \A n \in 1..Len(active_orders) :
          LET r == active_orders[n] IN
          (r.k \in Instances /\ OrderOf(r) \in 1..Len(exch))
              => Lookup(active_orders, EventCid(OrderOf(r))) = r.k

\* C26: every key of the ledger is an index of the ladder and every record
\* carries a side and a reference price.
C26_LedgerWellFormed ==
    \A n \in 1..Len(active_orders) :
        /\ active_orders[n].k \in Instances
        /\ active_orders[n].order_type \in Sides
        /\ active_orders[n].last_price # Nil

\* C27: when the buy quantity cannot be computed no order is submitted for
\* the instance on either transport path, no order with a quantity of zero
\* or less is ever submitted, and the instance is left Empty.
Submits(t) ==
    /\ th[t].pc \in {"p_ws", "p_rest"}
    /\ th'[t].pc # th[t].pc
    /\ Len(exch') > Len(exch)

StoresPlacement(t) == th[t].pc = "p_store" /\ th'[t].pc # "p_store"

C27_NoOrderWithoutQuantity ==
    [][\A t \in Callers :
          /\ Submits(t) => th[t].amount > 0
          /\ StoresPlacement(t) /\ th[t].amount <= 0
                => ~DictHas(active_orders', th[t].idx)]_vars

\* C28: round_up_to_one_significant(x) >= x for every x > 0, and with a fee
\* rate above 0 the sell quantity carry - round_up(carry * feeRate) is
\* strictly less than carry for every executed amount that can be recorded.
RoundedUp == calc.fn = "round_up_to_one_significant" /\ calc.done

SellSized == calc.fn = "sell_amount" /\ calc.done

C28_RoundUpCoversAndSellIsLess ==
    /\ RoundedUp /\ calc.x > 0 => calc.out[1] >= calc.x
    /\ SellSized /\ calc.fee_rate > 0 => calc.out[1] < calc.x

\* C29: for x > 0 round_up_to_one_significant(x) is the least d * 10^k with
\* d in 1..9 that is >= x; it returns x unchanged when x has one significant
\* digit, returns 0 for 0, and applying it to its result changes nothing.
OneDigitValues == {d * Pow10(k) : d \in 1..9, k \in 0..(MaxShift + 2)}

LeastOneDigit(x) ==
    CHOOSE v \in OneDigitValues :
        v >= x /\ \A w \in OneDigitValues : w >= x => v <= w

C29_RoundUpIsLeastOneDigit ==
    RoundedUp =>
        /\ calc.x > 0 => calc.out[1] = LeastOneDigit(calc.x)
        /\ calc.x \in OneDigitValues => calc.out[1] = calc.x
        /\ calc.x = 0 => calc.out[1] = 0
        /\ calc.out[2] = calc.out[1]

\* C30: instance i's buy trigger is the reference price plus (base trigger
\* offset + i) ticks and its buy limit the reference price plus (base limit
\* offset + i) ticks; a sell subtracts the same offsets; at one reference
\* price consecutive instances differ by exactly one tick and instance 0 is
\* the closest to the reference price.
LadderPriced == calc.fn = "_calculate_prices" /\ calc.done

Direction(side) == IF side = "buy" THEN 1 ELSE -1

BaseOffsets(side) ==
    IF side = "buy" THEN <<BuyTriggerAdjust, BuyLimitAdjust>>
    ELSE <<SellTriggerAdjust, SellLimitAdjust>>

C30_LadderStepsByOneTick ==
    LadderPriced =>
        \A j \in 1..2 :
           /\ \A n \in 1..calc.x :
                 /\ calc.out[n][j] = calc.last_price
                       + Direction(calc.side) * (BaseOffsets(calc.side)[j] + (n - 1))
                 /\ Abs(calc.out[1][j] - calc.last_price)
                       <= Abs(calc.out[n][j] - calc.last_price)
           /\ \A n \in 1..(calc.x - 1) :
                 calc.out[n + 1][j] - calc.out[n][j] = Direction(calc.side)

C30_Witness ==
    /\ LadderPriced
    /\ calc.x = MaxShutInstances
    /\ calc.side = "sell"
    /\ calc.out[MaxShutInstances] # calc.out[1]

\* C31: after handle_order_execution has processed an execution for instance
\* i, the record of i is removed and the next order placed for i has the
\* opposite side.
Opposite(side) == IF side = "buy" THEN "sell" ELSE "buy"

ExecutionHandled ==
    /\ Len(delivered') = Len(delivered) + 1
    /\ delivered'[Len(delivered')].matched

ExecutedKey == ExecLookup(active_orders, delivered'[Len(delivered')].order_id)

C31_ExecutionFlipsSide ==
    [][ExecutionHandled =>
          /\ ~DictHas(active_orders', ExecutedKey)
          /\ PlacementSide(order_type')
                = Opposite(DictGet(active_orders, ExecutedKey).order_type)]_vars

\* C32: in the single-order manager every handled execution clears
\* state.active and flips state.order_type, so the orders placed after
\* successive executions alternate in side; an event for another order, or
\* one received while no order is active, changes nothing.
SingleEventDelivered == Len(delivered') = Len(delivered) + 1

SingleHandled == SingleEventDelivered /\ delivered'[Len(delivered')].matched

\* The matched events so far, as positions in `delivered`.
MatchedEvents == {n \in 1..Len(delivered) : delivered[n].matched}

LastExecutedSide ==
    exch[delivered[CHOOSE n \in MatchedEvents : \A m \in MatchedEvents : m <= n].order_id].side

\* place_new_order has an order accepted.
SinglePlaces(t) ==
    /\ th[t].pc = "sp_attempt" /\ th'[t].pc = "sp_store"

C32_ExecutionsAlternate ==
    [][/\ SingleHandled => ~state'.active /\ order_type' = Opposite(order_type)
       /\ SingleEventDelivered /\ ~SingleHandled
             => UNCHANGED <<state, order_type, last_buy_amount>>
       /\ \A t \in Callers :
             SinglePlaces(t) /\ MatchedEvents # {}
                => th'[t].ot = Opposite(LastExecutedSide)]_vars

\* C33: in the single-order manager a cancellation the bot issued in
\* cancel_and_replace is never handled as an execution: whenever the
\* 'canceled' event of the order cancel_and_replace has just cancelled is
\* delivered, before or after cancel_order returns, it is not matched and
\* order_type is not flipped, and the replacement order has the side of the
\* cancelled one.
OwnCancelReported(t) ==
    /\ \/ th[t].pc = "sc_return" /\ th[t].sent
       \/ th[t].pc = "sc_place"
    /\ exch[th[t].cur].st = "cancelled"
    /\ SingleEventDelivered
    /\ delivered'[Len(delivered')].order_id = th[t].cur
SingleReplaces(t) == th[t].pc = "sc_place" /\ th'[t].pc = "sc_store"
C33_OwnCancelIsNotAnExecution ==
    [][\A t \in Callers :
          /\ OwnCancelReported(t)
                => ~delivered'[Len(delivered')].matched /\ order_type' = order_type
          /\ SingleReplaces(t)
                => exch'[Len(exch')].side = exch[th[t].cur].side]_vars

\* C34: recover_state of the single-order manager makes at most 3 cancel
\* attempts and, when it returns, the local order is forgotten
\* (state.active is False and the stored order identifier is cleared), even
\* if every cancel attempt failed, and order_type has the value it had on
\* entry (buy if it was unset).
RecoverReturns(t) ==
    th[t].top = "recover" /\ th[t].pc \in {"sr_attempt", "sr_reset"} /\ th'[t].pc = "idle"
C34_RecoverForgetsTheOrder ==
    [][\A t \in Callers :
          /\ th'[t].top = "recover" => th'[t].tries <= RecoverMaxRetries
          /\ RecoverReturns(t)
                => /\ ~state'.active
                   /\ state'.order_id = Nil
                   /\ order_type' = PlacementSide(th[t].ot)]_vars

\* C35: place_new_order of the single-order manager ends after at most 5
\* placement attempts, each made at the market price read for it;
\* state.active, last_price and the order id are written only after an
\* attempt that succeeded (the order just placed, at the price read for that
\* attempt), and every other step of the call, the return after 5 failures
\* included, leaves the state as it was.
PlaceSteps(t) == th[t].top = "place" /\ th'[t] # th[t]
C35_PlaceRetriesBounded ==
    [][\A t \in Callers :
          /\ th'[t].top = "place" => th'[t].tries <= PlaceMaxRetries
          /\ SinglePlaces(t)
                => th'[t].np = current_price /\ th'[t].res.id = Len(exch')
          /\ PlaceSteps(t) /\ th[t].pc = "sp_store"
                => state' = [active |-> TRUE, last_price |-> th[t].np,
                             order_id |-> th[t].res.id]
          /\ PlaceSteps(t) /\ th[t].pc # "sp_store"
                => UNCHANGED <<state, order_type>>]_vars
C35_Witness ==
    /\ th["loop"].top = "place" /\ th["loop"].pc = "sp_attempt"
    /\ th["loop"].tries = PlaceMaxRetries
    /\ state = NoState /\ exch = <<>>

\* C36: in the cancel-and-replace revisions, when cancel_and_replace returns
\* after its cancel request succeeded, the instance is no longer recorded
\* with the order that was cancelled: either the replacement was stored or
\* the record was removed.
CancelledAndReturns(t) ==
    th[t].pc \in {"xc_place", "xc_store"} /\ th'[t].pc = "xm_loop"
C36_NoRecordOfCancelledOrder ==
    [][\A t \in Callers :
          CancelledAndReturns(t) /\ DictHas(active_orders', th[t].idx)
             => DictGet(active_orders', th[t].idx).order_id # th[t].order_id]_vars

LoopLeft(r) == r.pc \in {"exited", "crashed"}
CycleRaises(r, after) == r.strat /\ ~r.inExc /\ after.inExc
C38_ExitsAfterLimitCycles ==
    [][LET r == th["loop"]
           after == th'["loop"]
       IN
       /\ trade_count' # trade_count
             => r.pc = "s_sleep" /\ trade_count' = trade_count + 1
       /\ CycleRaises(r, after)
             => /\ after.top = "recoverAll" /\ after.pc = "ra_start"
                /\ trade_count' = trade_count
       /\ after.pc = "idle" /\ r.strat /\ r.pc # "idle"
             => r.pc = "s_sleep" \/ (r.inExc /\ r.top = "recoverAll")
       /\ LoopLeft(after) /\ ~LoopLeft(r) => trade_count' = max_trades]_vars

\* C39: for every instance index i in 0..N-1 (N >= 1 instances, at most
\* max_instances_per_ws >= 1 per connection) get_ws_client(i) returns
\* connection number floor(i / max_instances_per_ws); that connection is
\* among the ceil(N / max_instances_per_ws) created, so the clamp to the
\* last one changes nothing; and no connection serves more than
\* max_instances_per_ws instances.
WsClientsAssigned == calc.fn = "get_ws_client" /\ calc.done
C39_ConnectionOfInstance ==
    WsClientsAssigned =>
        LET N == calc.x
            per == calc.max_instances_per_ws
            num == calc.out[1].num_clients
        IN
        /\ num * per >= N /\ (num - 1) * per < N
        /\ \A n \in 1..N :
              LET c == calc.out[n].returned IN
              /\ c * per <= n - 1 /\ n - 1 < (c + 1) * per
              /\ c \in 0..(num - 1)
              /\ c = calc.out[n].client_index
        /\ \A c \in 0..(num - 1) :
              Cardinality({n \in 1..N : calc.out[n].returned = c}) <= per
C39_Witness ==
    /\ WsClientsAssigned
    /\ calc.x = 5 /\ calc.max_instances_per_ws = 2
    /\ calc.out[5].returned = 2 /\ calc.out[1].num_clients = 3

====
